---- MODULE Spec2Model ----
(***************************************************************************)
(* A model of the camera-and-lens scraper (packages cldb and               *)
(* camera_lens_database): the text pattern extractors of utils.py, the     *)
(* Nikon / Sony spec readers with their table-shape strategies, and the    *)
(* fetch command (enumerate, read, identifier continuity, sort, write).    *)
(*                                                                         *)
(* Text is a sequence of one-character strings.  The characters outside    *)
(* ASCII that the code tests for are written with ASCII stand-ins:         *)
(*   "~" is U+FF5E (the wave dash), "{" and "}" are U+FF08 and U+FF09 (the *)
(*   full-width parentheses), "*" is U+00D7 (the multiplication sign).     *)
(* Labels of table rows are whole strings, named after their meaning.      *)
(***************************************************************************)
EXTENDS Integers, Sequences, FiniteSets, TLC

VARIABLES
    \* ---- text extractors (SpecText)
    tokens,     \* the tokens the input text was written from
    text,       \* the input text: a sequence of characters
    op,         \* the extractor applied last ("none" before any)
    out,        \* list(extractor(text)): [raised, vals]
    \* ---- one call of a spec reader (SpecReader)
    rd_item,    \* [reader, name, uri]: the reader called and its arguments
    rd_web,     \* what fetch returns for each URI: a page, or DOWN
    rd_mode,    \* the index into mode_values of the strategy tried next
    rd_errors,  \* errors: the (mode, ParseError) pairs recorded so far
    rd_status,  \* "idle", "trying", "returned" or "raised"
    rd_result,  \* the record returned or the exception raised
    rd_uuid,    \* the number of uuid4() values drawn
    \* ---- one run of the fetch command, then of the sort script (Spec)
    f_pkg,      \* the package run: "cldb" or "camera_lens_database"
    f_prior,    \* cameras.csv as the command read it at its start
    f_csv,      \* cameras.csv now (the command is run with -o cameras.csv)
    f_ppargs,   \* ppargs: the (name, uri) of every item enumerated
    f_web,      \* what fetch returned for each URI fetched so far
    f_specs,    \* the records the detail fetcher returned so far, in order
    f_status,   \* "listing", "reading", "written" (exit code 0), "exit 0", "exit 1"
    f_exc,      \* the exception the command printed ("" when none)
    f_uuid,     \* the number of uuid4() values drawn
    f_sort,     \* sort.py: "none" (not run), "done" or the exception raised
    f_sorted,   \* cameras.sorted.csv as sort.py wrote it
    \* ---- the enumerator and the calls made with what it yields (SpecEnum)
    en_chain,   \* the categories chained by the fetch command, in order
    en_k,       \* the index in en_chain of the category being enumerated
    en_anchors, \* the anchors (title, href) of the listing pages opened so far
    en_i,       \* the number of those anchors the loop has consumed
    en_out,     \* ppargs so far: every element yielded, in order
    en_warn,    \* the hrefs of the "not on the same server" warnings
    en_status,  \* "idle", "start", "walking", "listed", "called", "exit 1"
    en_exc,     \* the exception the detail fetcher raised ("" when none)
    \* ---- the page cache and the workers calling fetch (SpecCache)
    now,        \* datetime.utcnow(), in hours
    disk,       \* the cache directory: for each URI its file, or NoFile
    site,       \* the version of its pages the site serves
    pc,         \* for each worker the line of fetch it is about to run
    req,        \* for each worker the URI of the fetch it is in ("" when idle)
    resp,       \* for each worker resp.text of its requests.get, once made
    ret,        \* for each worker what its last fetch returned, and how
    \* ---- the pool of processes of parallel_apply (SpecParallel)
    pl_workers, \* the option --num-workers
    pl_task,    \* for each process the index of the item it is at (0: none)
    pl_done,    \* for each item a process has finished, what f gave for it
    pl_order,   \* the indexes of the items in the order they were finished
    \* ---- the purge command, and the fetches after it (SpecPurge)
    pg_status,  \* "none" (not run), "purging", "done"
    pg_left,    \* the paths of the glob the loop has still to unlink
    pg_log,     \* per path gone through: <<path, "removed">> or <<path, "warned">>
    pg_snap,    \* the cache directory as the purge found it
    pg_called,  \* the URIs fetch has been called with since the purge ended
    pg_first    \* the last call of fetch was the first of its URI since then

textVars == <<tokens, text, op, out>>

readerVars == <<rd_item, rd_web, rd_mode, rd_errors, rd_status, rd_result, rd_uuid>>

fetchVars ==
    <<f_pkg, f_prior, f_csv, f_ppargs, f_web, f_specs, f_status, f_exc, f_uuid,
      f_sort, f_sorted>>

enumVars ==
    <<en_chain, en_k, en_anchors, en_i, en_out, en_warn, en_status, en_exc>>

cacheVars == <<now, disk, site, pc, req, resp, ret>>

poolVars == <<pl_workers, pl_task, pl_done, pl_order>>

purgeVars == <<pg_status, pg_left, pg_log, pg_snap, pg_called, pg_first>>

vars == <<textVars, readerVars, fetchVars, enumVars, cacheVars, poolVars, purgeVars>>

TextIdle == tokens = << >> /\ text = << >> /\ op = "idle" /\ out = << >>

ReaderIdle ==
    /\ rd_item = << >> /\ rd_web = << >> /\ rd_mode = 0 /\ rd_errors = << >>
    /\ rd_status = "idle" /\ rd_result = << >> /\ rd_uuid = 0

FetchIdle ==
    /\ f_pkg = "" /\ f_prior = << >> /\ f_csv = << >> /\ f_ppargs = << >>
    /\ f_web = << >> /\ f_specs = << >> /\ f_status = "idle" /\ f_exc = ""
    /\ f_uuid = 0 /\ f_sort = "none" /\ f_sorted = << >>

EnumIdle ==
    /\ en_chain = << >> /\ en_k = 0 /\ en_anchors = << >> /\ en_i = 0
    /\ en_out = << >> /\ en_warn = << >> /\ en_status = "idle" /\ en_exc = ""

CacheIdle ==
    /\ now = 0 /\ disk = << >> /\ site = 0 /\ pc = << >> /\ req = << >>
    /\ resp = << >> /\ ret = << >>

PoolIdle == pl_workers = 0 /\ pl_task = << >> /\ pl_done = << >> /\ pl_order = << >>

PurgeIdle ==
    /\ pg_status = "idle" /\ pg_left = << >> /\ pg_log = << >> /\ pg_snap = << >>
    /\ pg_called = {} /\ pg_first = FALSE

-----------------------------------------------------------------------------
(* Characters and decimal numbers *)

Digits == {"0", "1", "2", "3", "4", "5", "6", "7", "8", "9"}

IsDigit(c) == c \in Digits

\* the regular expression class [\d\.]
IsNumChar(c) == c \in Digits \/ c = "."

\* the regular expression class \s
IsSpace(c) == c = " "

DigitVal(c) ==
    CASE c = "0" -> 0 [] c = "1" -> 1 [] c = "2" -> 2 [] c = "3" -> 3
      [] c = "4" -> 4 [] c = "5" -> 5 [] c = "6" -> 6 [] c = "7" -> 7
      [] c = "8" -> 8 [] c = "9" -> 9

At(s, i, c) == i >= 1 /\ i <= Len(s) /\ s[i] = c

Slice(s, i, j) == IF j < i THEN << >> ELSE SubSeq(s, i, j)

RECURSIVE Pow10(_)
Pow10(e) == IF e = 0 THEN 1 ELSE 10 * Pow10(e - 1)

\* A float is kept as an exact decimal n / 10^e with no trailing zero in the
\* fraction, so that equal numbers are equal values ("1.50" and "1.5").
RECURSIVE Normalize(_)
Normalize(d) ==
    IF d.e > 0 /\ d.n % 10 = 0 THEN Normalize([n |-> d.n \div 10, e |-> d.e - 1])
    ELSE d

Dec(n, e) == Normalize([n |-> n, e |-> e])

RECURSIVE DigitsToInt(_)
DigitsToInt(s) ==
    IF s = << >> THEN 0
    ELSE 10 * DigitsToInt(SubSeq(s, 1, Len(s) - 1)) + DigitVal(s[Len(s)])

DotCount(s) == Cardinality({i \in 1..Len(s) : s[i] = "."})

\* float(s) raises ValueError unless s is digits with at most one "." and at
\* least one digit ("1." and ".5" are floats; "." and "1.2.3" are not).
FloatOk(s) ==
    /\ \A i \in 1..Len(s) : IsNumChar(s[i])
    /\ DotCount(s) <= 1
    /\ \E i \in 1..Len(s) : IsDigit(s[i])

DotPos(s) == CHOOSE i \in 1..Len(s) : s[i] = "."

ToFloat(s) ==
    IF DotCount(s) = 0 THEN Dec(DigitsToInt(s), 0)
    ELSE Dec(DigitsToInt(SelectSeq(s, IsDigit)), Len(s) - DotPos(s))

DecLess(x, y) == x.n * Pow10(y.e) < y.n * Pow10(x.e)

Times(x, k) == Dec(x.n * k, x.e)

\* The characters of a string literal.  In the texts of a page the words
\* "nikon", "mount", "sony", "other", "cmos" and "format" are one symbol
\* each: a run of kana or letters that no pattern of the code looks into.
Chars(str) ==
    CASE str = "18" ->
             <<"1", "8">>
      [] str = "35" ->
             <<"3", "5">>
      [] str = "50" ->
             <<"5", "0">>
      [] str = "3.5" ->
             <<"3", ".", "5">>
      [] str = "4.5" ->
             <<"4", ".", "5">>
      [] str = "0.45" ->
             <<"0", ".", "4", "5">>
      [] str = "AI AF Zoom-Nikkor 18-35mm f/3.5-4.5D IF-ED" ->
             <<"A", "I", " ", "A", "F", " ", "Z", "o", "o", "m", "-", "N",
               "i", "k", "k", "o", "r", " ", "1", "8", "-", "3", "5", "m",
               "m", " ", "f", "/", "3", ".", "5", "-", "4", ".", "5", "D",
               " ", "I", "F", "-", "E", "D">>
      [] str = "AI AF Zoom Nikkor 24~50mm F3.3~4.5D" ->
             <<"A", "I", " ", "A", "F", " ", "Z", "o", "o", "m", " ", "N",
               "i", "k", "k", "o", "r", " ", "2", "4", "~", "5", "0", "m",
               "m", " ", "F", "3", ".", "3", "~", "4", ".", "5", "D">>
      [] str = "AI Micro-Nikkor 55mm f/2.8S" ->
             <<"A", "I", " ", "M", "i", "c", "r", "o", "-", "N", "i", "k",
               "k", "o", "r", " ", "5", "5", "m", "m", " ", "f", "/", "2",
               ".", "8", "S">>
      [] str = "AI Micro-Nikkor 105mm f/2.8S" ->
             <<"A", "I", " ", "M", "i", "c", "r", "o", "-", "N", "i", "k",
               "k", "o", "r", " ", "1", "0", "5", "m", "m", " ", "f", "/",
               "2", ".", "8", "S">>
      [] str = "Nikkor Z 50mm f/1.8 S" ->
             <<"N", "i", "k", "k", "o", "r", " ", "Z", " ", "5", "0", "m",
               "m", " ", "f", "/", "1", ".", "8", " ", "S">>
      [] str = "D1" ->
             <<"D", "1">>
      [] str = "D850" ->
             <<"D", "8", "5", "0">>
      [] str = "DSLR-A900" ->
             <<"D", "S", "L", "R", "-", "A", "9", "0", "0">>
      [] str = "ILCE-7" ->
             <<"I", "L", "C", "E", "-", "7">>
      [] str = " nikon Z mount " ->
             <<" ", "nikon", " ", "Z", " ", "mount", " ">>
      [] str = "nikonFmount" ->
             <<"nikon", "F", "mount">>
      [] str = "nikon1mount" ->
             <<"nikon", "1", "mount">>
      [] str = "sony Emount" ->
             <<"sony", " ", "E", "mount">>
      [] str = "other" ->
             <<"other">>
      [] str = "50mm" ->
             <<"5", "0", "m", "m">>
      [] str = "0.45m" ->
             <<"0", ".", "4", "5", "m">>
      [] str = "f/16" ->
             <<"f", "/", "1", "6">>
      [] str = "f/1.8" ->
             <<"f", "/", "1", ".", "8">>
      [] str = "35.9*23.9mm cmos" ->
             <<"3", "5", ".", "9", "*", "2", "3", ".", "9", "m", "m", " ",
               "cmos">>
      [] str = "13.2*8.8mm" ->
             <<"1", "3", ".", "2", "*", "8", ".", "8", "m", "m">>
      [] str = "35.6*23.8mm" ->
             <<"3", "5", ".", "6", "*", "2", "3", ".", "8", "m", "m">>
      [] str = "35.9*23.9mm cmos FX format" ->
             <<"3", "5", ".", "9", "*", "2", "3", ".", "9", "m", "m", " ",
               "cmos", " ", "F", "X", " ", "format">>
      [] str = "D3X" -> <<"D", "3", "X">>
      [] str = "D3S" -> <<"D", "3", "S">>
      [] str = "D3s" -> <<"D", "3", "s">>
      [] str = "Nikon" -> <<"N", "i", "k", "o", "n">>
      [] str = "Nikon F" -> <<"N", "i", "k", "o", "n", " ", "F">>
      [] str = "Nikon Z" -> <<"N", "i", "k", "o", "n", " ", "Z">>
      [] str = "AB-1" -> <<"A", "B", "-", "1">>
      [] str = "cd-2" -> <<"c", "d", "-", "2">>
      [] str = "ef-3" -> <<"e", "f", "-", "3">>

-----------------------------------------------------------------------------
(* Regular expression matching, as Python's re does it: leftmost match,      *)
(* greedy quantifiers with backtracking, findall scanning on from the end    *)
(* of each match.                                                            *)

RECURSIVE NumRun(_, _)
\* the length of the longest run of [\d\.] starting at i
NumRun(s, i) ==
    IF i <= Len(s) /\ IsNumChar(s[i]) THEN 1 + NumRun(s, i + 1) ELSE 0

RECURSIVE SpaceRun(_, _)
\* the length of the longest run of \s starting at i
SpaceRun(s, i) ==
    IF i <= Len(s) /\ IsSpace(s[i]) THEN 1 + SpaceRun(s, i + 1) ELSE 0

NoMatch == [ok |-> FALSE, g1 |-> << >>, g2 |-> << >>, end |-> 0]

\* r"([\d\.]+)(?:mm)?\s*-\s*([\d\.]+)mm" matched at position i.
\* Backtracking never finds a second way: a shorter first group leaves a
\* number character where "mm", a space or "-" must follow; giving up the
\* optional "mm" leaves "m" before "-"; fewer spaces leave a space before "-"
\* or before the second group; a shorter second group leaves a number
\* character where "mm" must follow.  So every quantifier takes its longest run.
\* (the positions: the first group is i..j1-1, "-" is looked for at j3, the
\* second group is j4..j5-1)
MatchRange(s, i) ==
    LET Closing(j1, j3, j4, j5) ==
            IF j1 > i /\ At(s, j3, "-") /\ j5 > j4 /\ At(s, j5, "m") /\ At(s, j5 + 1, "m")
            THEN [ok |-> TRUE, g1 |-> Slice(s, i, j1 - 1), g2 |-> Slice(s, j4, j5 - 1),
                  end |-> j5 + 2]
            ELSE NoMatch
        Second(j1, j3, j4) == Closing(j1, j3, j4, j4 + NumRun(s, j4))
        Dash(j1, j3) == Second(j1, j3, j3 + 1 + SpaceRun(s, j3 + 1))
        Spaces(j1, j2) == Dash(j1, j2 + SpaceRun(s, j2))
        Unit(j1) == Spaces(j1, IF At(s, j1, "m") /\ At(s, j1 + 1, "m") THEN j1 + 2 ELSE j1)
    IN  Unit(i + NumRun(s, i))

\* r"([\d\.]+)mm" matched at position i (g2 unused)
MatchSingle(s, i) ==
    LET Unit(k) ==
            IF k >= 1 /\ At(s, i + k, "m") /\ At(s, i + k + 1, "m")
            THEN [ok |-> TRUE, g1 |-> Slice(s, i, i + k - 1), g2 |-> << >>,
                  end |-> i + k + 2]
            ELSE NoMatch
    IN  Unit(NumRun(s, i))

\* r"([\d\.]+)\s*(mm?)" matched at position i: g2 is the unit
MatchValue(s, i) ==
    LET Unit(j1, j2, mm) ==
            IF j1 > i /\ At(s, j2, "m")
            THEN [ok |-> TRUE, g1 |-> Slice(s, i, j1 - 1),
                  g2 |-> IF mm THEN <<"m", "m">> ELSE <<"m">>,
                  end |-> IF mm THEN j2 + 2 ELSE j2 + 1]
            ELSE NoMatch
        Spaces(j1, j2) == Unit(j1, j2, At(s, j2 + 1, "m"))
        Number(j1) == Spaces(j1, j1 + SpaceRun(s, j1))
    IN  Number(i + NumRun(s, i))

\* r"f/([\d\.]+)" matched at position i
MatchFSlash(s, i) ==
    LET Number(k) ==
            IF At(s, i, "f") /\ At(s, i + 1, "/") /\ k >= 1
            THEN [ok |-> TRUE, g1 |-> Slice(s, i + 2, i + 1 + k), g2 |-> << >>,
                  end |-> i + 2 + k]
            ELSE NoMatch
    IN  Number(NumRun(s, i + 2))

\* the lookahead (?![m\d]) at position j
NotBeforeMOrDigit(s, j) == ~ (j <= Len(s) /\ (s[j] = "m" \/ IsDigit(s[j])))

\* r"([\d\.]+)(?![m\d])" matched at position i: the group gives characters
\* back until the lookahead holds
MatchBare(s, i) ==
    LET Group(k) == [ok |-> TRUE, g1 |-> Slice(s, i, i + k - 1), g2 |-> << >>, end |-> i + k]
        Longest(ks) ==
            IF ks # {} THEN Group(CHOOSE k \in ks : \A k2 \in ks : k2 <= k) ELSE NoMatch
    IN  Longest({k \in 1..NumRun(s, i) : NotBeforeMOrDigit(s, i + k)})

\* the regular expression class [*x]; "*" stands for the multiplication sign
IsTimes(c) == c = "*" \/ c = "x"

\* an optional literal such as (?:\(H\))? at position i: the position after it
SkipOptional(s, i, lit) ==
    IF i + Len(lit) - 1 <= Len(s) /\ SubSeq(s, i, i + Len(lit) - 1) = lit
    THEN i + Len(lit) ELSE i

\* mutant: the pattern without the optional notes "(H)" and "(V)"
MatchSquare_no_notes(s, i) ==
    LET Closing(j1, j3, j4, j5, j7) ==
            IF j1 > i /\ j3 <= Len(s) /\ IsTimes(s[j3]) /\ j5 > j4
                  /\ At(s, j7, "m") /\ At(s, j7 + 1, "m")
            THEN [ok |-> TRUE, g1 |-> Slice(s, i, j1 - 1), g2 |-> Slice(s, j4, j5 - 1),
                  end |-> j7 + 2]
            ELSE NoMatch
        Second(j1, j3, j4, j5) == Closing(j1, j3, j4, j5, j5 + SpaceRun(s, j5))
        Sign(j1, j3, j4) == Second(j1, j3, j4, j4 + NumRun(s, j4))
        Spaces(j1, j3) == Sign(j1, j3, j3 + 1 + SpaceRun(s, j3 + 1))
        First(j1) == Spaces(j1, j1 + SpaceRun(s, j1))
    IN  First(i + NumRun(s, i))

\* r"([\d\.]+)(?:\(H\))?\s*[*x]\s*([\d\.]+)(?:\(V\))?\s*mm" matched at i.
\* As for the ranges, every quantifier takes its longest run: a shorter group
\* leaves a number character where "(", a space, the sign or "m" must follow,
\* and a literal "(H)" or "(V)" passed over leaves "(" there.
\* (the positions: the first group is i..j1-1, the sign is looked for at j3,
\* the second group is j4..j5-1, "mm" is looked for at j7)
MatchSquare(s, i) ==
    LET Closing(j1, j3, j4, j5, j7) ==
            IF j1 > i /\ j3 <= Len(s) /\ IsTimes(s[j3]) /\ j5 > j4
                  /\ At(s, j7, "m") /\ At(s, j7 + 1, "m")
            THEN [ok |-> TRUE, g1 |-> Slice(s, i, j1 - 1), g2 |-> Slice(s, j4, j5 - 1),
                  end |-> j7 + 2]
            ELSE NoMatch
        NoteV(j1, j3, j4, j5, j6) == Closing(j1, j3, j4, j5, j6 + SpaceRun(s, j6))
        Second(j1, j3, j4, j5) ==
            NoteV(j1, j3, j4, j5, SkipOptional(s, j5, <<"(", "V", ")">>))
        Sign(j1, j3, j4) == Second(j1, j3, j4, j4 + NumRun(s, j4))
        Spaces(j1, j3) == Sign(j1, j3, j3 + 1 + SpaceRun(s, j3 + 1))
        NoteH(j1, j2) == Spaces(j1, j2 + SpaceRun(s, j2))
        First(j1) == NoteH(j1, SkipOptional(s, j1, <<"(", "H", ")">>))
    IN  First(i + NumRun(s, i))

RECURSIVE FindAll(_, _, _)
\* re.findall(pattern, s), Match the pattern matched at a position: the
\* matches from position i on, left to right, each search starting where the
\* match before ended
FindAll(Match(_, _), s, i) ==
    IF i > Len(s) THEN << >>
    ELSE LET Onward(m) ==
                 IF m.ok THEN <<m>> \o FindAll(Match, s, m.end)
                 ELSE FindAll(Match, s, i + 1)
         IN  Onward(Match(s, i))

-----------------------------------------------------------------------------
(* The text pattern extractors of utils.py.  Each is a generator; the model  *)
(* gives what list(...) of it gives: the values yielded, and whether a       *)
(* float() conversion raised ValueError on the way.                          *)

Result(raised, vals) == [raised |-> raised, vals |-> vals]

RECURSIVE YieldFloats(_, _)
\* "for number in numbers: yield float(number) * ratio": values until one raises
YieldFloats(ms, ratio) ==
    IF ms = << >> THEN Result(FALSE, << >>)
    ELSE IF ~ FloatOk(ms[1].g1) THEN Result(TRUE, << >>)
    ELSE LET rest == YieldFloats(Tail(ms), ratio)
         IN  Result(rest.raised, <<Times(ToFloat(ms[1].g1), ratio)>> \o rest.vals)

AllFloatOk(ms) == \A i \in 1..Len(ms) : FloatOk(ms[i].g1) /\ FloatOk(ms[i].g2)

\* mutant: the "return" after the ranges is lost, so the single values follow
enum_millimeter_ranges_no_return(s) ==
    LET pairs   == FindAll(MatchRange, s, 1)
        singles == FindAll(MatchSingle, s, 1)
    IN  IF ~ AllFloatOk(pairs) \/ ~ AllFloatOk(singles) THEN Result(TRUE, << >>)
        ELSE Result(FALSE,
                 [i \in 1..Len(pairs) |-> <<ToFloat(pairs[i].g1), ToFloat(pairs[i].g2)>>]
                 \o [i \in 1..Len(singles) |->
                        <<ToFloat(singles[i].g1), ToFloat(singles[i].g1)>>])

\* mutant: the single-value pass yields its first value only
enum_millimeter_ranges_first_single(s) ==
    LET pairs   == FindAll(MatchRange, s, 1)
        singles == FindAll(MatchSingle, s, 1)
    IN  IF ~ AllFloatOk(pairs) \/ ~ AllFloatOk(singles) THEN Result(TRUE, << >>)
        ELSE IF pairs # << >>
        THEN Result(FALSE, [i \in 1..Len(pairs) |->
                               <<ToFloat(pairs[i].g1), ToFloat(pairs[i].g2)>>])
        ELSE Result(FALSE, [i \in 1..(IF singles = << >> THEN 0 ELSE 1) |->
                               <<ToFloat(singles[i].g1), ToFloat(singles[i].g1)>>])

enum_millimeter_ranges(s) ==
    LET \* "for number in _re_millimeter.findall(s)"
        Singles(singles) ==
            IF \E i \in 1..Len(singles) : ~ FloatOk(singles[i].g1)
            THEN Result(TRUE, << >>)
            ELSE Result(FALSE, [i \in 1..Len(singles) |->
                                  <<ToFloat(singles[i].g1), ToFloat(singles[i].g1)>>])
        \* "pairs = _re_millimeter_range.findall(s)"
        Pairs(pairs) ==
            IF ~ AllFloatOk(pairs) THEN Result(TRUE, << >>)
            ELSE IF pairs # << >>
            THEN Result(FALSE, [i \in 1..Len(pairs) |->
                                   <<ToFloat(pairs[i].g1), ToFloat(pairs[i].g2)>>])
            ELSE Singles(FindAll(MatchSingle, s, 1))
    IN  Pairs(FindAll(MatchRange, s, 1))

RECURSIVE YieldValues(_)
YieldValues(ms) ==
    IF ms = << >> THEN Result(FALSE, << >>)
    ELSE IF ~ FloatOk(ms[1].g1) THEN Result(TRUE, << >>)
    ELSE LET rest  == YieldValues(Tail(ms))
             ratio == IF ms[1].g2 = <<"m", "m">> THEN 1 ELSE 1000
         IN  Result(rest.raised, <<Times(ToFloat(ms[1].g1), ratio)>> \o rest.vals)

enum_millimeter_values(s) == YieldValues(FindAll(MatchValue, s, 1))

\* the pass over the "f/N" matches, then (with no return in between) the pass
\* over the bare numbers
enum_f_numbers(s) ==
    LET Both(f_numbers, numbers) ==
            IF f_numbers.raised THEN f_numbers
            ELSE Result(numbers.raised, f_numbers.vals \o numbers.vals)
    IN  Both(YieldFloats(FindAll(MatchFSlash, s, 1), 1), YieldFloats(FindAll(MatchBare, s, 1), 1))

-----------------------------------------------------------------------------
(* Text normalisation of nikon.py.  A run of letters that no pattern looks   *)
(* into is written as one symbol ("nikon" for the three kana of the brand,   *)
(* "mount" for the four kana of the word).                                   *)

RECURSIVE IndexFrom(_, _, _)
\* the first position >= i holding c, or 0
IndexFrom(s, i, c) ==
    IF i > Len(s) THEN 0 ELSE IF s[i] = c THEN i ELSE IndexFrom(s, i + 1, c)

RECURSIVE SubParens(_, _, _, _)
\* re.sub of open [^close]+ close, scanning from i: the group is kept between
\* "(" and ")" when keep, and dropped otherwise
SubParens(s, i, delims, keep) ==
    IF i > Len(s) THEN << >>
    ELSE LET j == IndexFrom(s, i + 1, delims[2])
         IN  IF s[i] = delims[1] /\ j > i + 1
             THEN (IF keep THEN <<"(">> \o Slice(s, i + 1, j - 1) \o <<")">> ELSE << >>)
                  \o SubParens(s, j + 1, delims, keep)
             ELSE <<s[i]>> \o SubParens(s, i + 1, delims, keep)

\* re.sub(r"(?<=\d)~(?=[\dF])", "-", s), "~" the wave dash
SubWaveDash(s) ==
    [i \in 1..Len(s) |->
        IF s[i] = "~" /\ i > 1 /\ i < Len(s) /\ IsDigit(s[i - 1])
              /\ (IsDigit(s[i + 1]) \/ s[i + 1] = "F")
        THEN "-" ELSE s[i]]

_to_half_width(s) == SubWaveDash(SubParens(s, 1, <<"{", "}">>, TRUE))

RECURSIVE MRun(_, _)
\* the length of the longest run of [\d\.m] starting at i
MRun(s, i) ==
    IF i <= Len(s) /\ (IsNumChar(s[i]) \/ s[i] = "m") THEN 1 + MRun(s, i + 1) ELSE 0

RECURSIVE SubBracketNote(_, _)
\* re.sub(r"\[([\d\.m]+)\s*[:]\s*[^\]]+\]", r" \g<1>", s): "[0.21m: at 85mm]"
\* becomes " 0.21m".  The group takes its longest run: a shorter one leaves
\* one of its own characters before the colon.
SubBracketNote(s, i) ==
    IF i > Len(s) THEN << >>
    ELSE LET k  == MRun(s, i + 1)
             j1 == i + 1 + k
             j2 == j1 + SpaceRun(s, j1)
             j3 == IndexFrom(s, j2 + 1, "]")
             \* \s* before [^\]]+ may give spaces back, so one character of any
             \* kind but "]" after the colon is enough
         IN  IF s[i] = "[" /\ k >= 1 /\ At(s, j2, ":") /\ j3 > j2 + 1
             THEN <<" ">> \o Slice(s, i + 1, j1 - 1) \o SubBracketNote(s, j3 + 1)
             ELSE <<s[i]>> \o SubBracketNote(s, i + 1)

_remove_parens(s) ==
    SubBracketNote(
        SubParens(SubParens(_to_half_width(s), 1, <<"{", "}">>, FALSE),
                  1, <<"(", ")">>, FALSE),
        1)

RECURSIVE Strip(_)
\* str.strip()
Strip(s) ==
    IF s # << >> /\ IsSpace(s[1]) THEN Strip(Tail(s))
    ELSE IF s # << >> /\ IsSpace(s[Len(s)]) THEN Strip(SubSeq(s, 1, Len(s) - 1))
    ELSE s

\* sub in s: sub occurs as a contiguous part of s
Contains(s, sub) ==
    \E i \in 1..(Len(s) - Len(sub) + 1) : SubSeq(s, i, i + Len(sub) - 1) = sub

MOUNT_F == "Nikon F"
MOUNT_Z == "Nikon Z"

NoSpaces(c) == c # " "

\* the mount, or "ParseError" (unrecognizable mount description)
_parse_mount_name(s) ==
    LET t == SelectSeq(s, NoSpaces)
    IN  IF Contains(t, <<"nikon", "Z", "mount">>) THEN MOUNT_Z
        ELSE IF Contains(t, <<"nikon", "F", "mount">>) THEN MOUNT_F
        ELSE "ParseError"

-----------------------------------------------------------------------------
(* Input texts of the extractors.  A text is written from a short list of    *)
(* tokens, each rendered to characters; the extractors only see the          *)
(* characters.                                                               *)

MaxTokens == 3

Tok(kind, a, b, st) == [kind |-> kind, a |-> a, b |-> b, st |-> st]

\* the tokens: ranges written "A-Bmm", "Amm-Bmm", "Amm - Bmm", "A mm - B mm"
\* (st 0..3); "Nmm" and "N mm"; "Nm" and "N m"; "f/N" and "f/A-B"; a bare
\* number; the separators.  (Further kinds, for the texts of SpecExtract: a
\* quantity "N<st spaces>unit", and an area "W(H) * H(V) mm" whose st gives
\* the notes written, the sign and the spaces.)
AllTokens ==
    {Tok("range", Chars("18"), Chars("35"), st) : st \in 0..3}
    \cup {Tok("range", Chars("35"), Chars("50"), 1)}
    \cup {Tok("mm", Chars("50"), << >>, 0), Tok("mm", Chars("50"), << >>, 1),
          Tok("mm", Chars("18"), << >>, 0)}
    \cup {Tok("m", Chars("0.45"), << >>, 0), Tok("m", Chars("0.45"), << >>, 1)}
    \cup {Tok("f", Chars("3.5"), << >>, 0), Tok("f", Chars("3.5"), Chars("4.5"), 1)}
    \cup {Tok("num", Chars("4.5"), << >>, 0)}
    \cup {Tok("sep", <<" ">>, << >>, 0), Tok("sep", <<",">>, << >>, 0),
          Tok("sep", <<"-">>, << >>, 0)}

RenderToken(t) ==
    CASE t.kind = "range" /\ t.st = 0 -> t.a \o <<"-">> \o t.b \o <<"m", "m">>
      [] t.kind = "range" /\ t.st = 1 -> t.a \o <<"m", "m", "-">> \o t.b \o <<"m", "m">>
      [] t.kind = "range" /\ t.st = 2 ->
             t.a \o <<"m", "m", " ", "-", " ">> \o t.b \o <<"m", "m">>
      [] t.kind = "range" /\ t.st = 3 ->
             t.a \o <<" ", "m", "m", " ", "-", " ">> \o t.b \o <<" ", "m", "m">>
      [] t.kind = "mm" /\ t.st = 0 -> t.a \o <<"m", "m">>
      [] t.kind = "mm" /\ t.st = 1 -> t.a \o <<" ", "m", "m">>
      [] t.kind = "m" /\ t.st = 0 -> t.a \o <<"m">>
      [] t.kind = "m" /\ t.st = 1 -> t.a \o <<" ", "m">>
      [] t.kind = "f" /\ t.st = 0 -> <<"f", "/">> \o t.a
      [] t.kind = "f" /\ t.st = 1 -> <<"f", "/">> \o t.a \o <<"-">> \o t.b
      [] t.kind = "qty" -> t.a \o [k \in 1..t.st |-> " "] \o t.b
      [] t.kind = "area" ->
             t.a \o (IF t.st.h THEN <<"(", "H", ")">> ELSE << >>)
                 \o [k \in 1..t.st.s1 |-> " "] \o <<t.st.sign>>
                 \o [k \in 1..t.st.s2 |-> " "] \o t.b
                 \o (IF t.st.v THEN <<"(", "V", ")">> ELSE << >>)
                 \o [k \in 1..t.st.s3 |-> " "] \o <<"m", "m">>
      [] OTHER -> t.a

RECURSIVE Render(_)
Render(ts) == IF ts = << >> THEN << >> ELSE RenderToken(ts[1]) \o Render(Tail(ts))

TokenLists == UNION {[1..n -> AllTokens] : n \in 0..MaxTokens}

NoResult == Result(FALSE, << >>)

InitText ==
    /\ tokens \in TokenLists
    /\ text = Render(tokens)
    /\ op = "none"
    /\ out = NoResult
    /\ ReaderIdle
    /\ FetchIdle
    /\ EnumIdle
    /\ CacheIdle
    /\ PoolIdle
    /\ PurgeIdle

Call_enum_millimeter_ranges ==
    /\ op = "none"
    /\ op' = "enum_millimeter_ranges"
    /\ out' = enum_millimeter_ranges(text)
    /\ UNCHANGED <<tokens, text, readerVars, fetchVars, enumVars, cacheVars,
               poolVars, purgeVars>>

Call_enum_millimeter_values ==
    /\ op = "none"
    /\ op' = "enum_millimeter_values"
    /\ out' = enum_millimeter_values(text)
    /\ UNCHANGED <<tokens, text, readerVars, fetchVars, enumVars, cacheVars,
               poolVars, purgeVars>>

Call_enum_f_numbers ==
    /\ op = "none"
    /\ op' = "enum_f_numbers"
    /\ out' = enum_f_numbers(text)
    /\ UNCHANGED <<tokens, text, readerVars, fetchVars, enumVars, cacheVars,
               poolVars, purgeVars>>

NextText ==
    \/ Call_enum_millimeter_ranges
    \/ Call_enum_millimeter_values
    \/ Call_enum_f_numbers

SpecText == InitText /\ [][NextText]_vars

-----------------------------------------------------------------------------
(* Claims about the text pattern extractors (checked under SpecText)         *)

Kinds(ts) == {ts[i].kind : i \in 1..Len(ts)}

IsPlainSep(t) == t.kind = "sep" /\ t.a # <<"-">>

\* tokens stand apart: between two tokens that are not separators there is a
\* separator, and the separators are spaces or commas (a hyphen between two
\* numbers would itself write a range)
Separated(ts) ==
    /\ \A i \in 1..Len(ts) : ts[i].kind = "sep" => IsPlainSep(ts[i])
    /\ \A i \in 1..(Len(ts) - 1) : ts[i].kind = "sep" \/ ts[i + 1].kind = "sep"

IsRange(t) == t.kind = "range"
IsMm(t) == t.kind = "mm"
IsF(t) == t.kind = "f"

\* the ranges the tokens write, in order of appearance
RangesWritten(ts) ==
    LET rs == SelectSeq(ts, IsRange)
    IN  [i \in 1..Len(rs) |-> <<ToFloat(rs[i].a), ToFloat(rs[i].b)>>]

\* one degenerate pair for each "N mm" token, in order of appearance
SinglesWritten(ts) ==
    LET ms == SelectSeq(ts, IsMm)
    IN  [i \in 1..Len(ms) |-> <<ToFloat(ms[i].a), ToFloat(ms[i].a)>>]

\* no white space between a number and its unit
Tight(t) == (t.kind = "range" => t.st # 3) /\ (t.kind = "mm" => t.st # 1)

HasRangeText ==
    /\ op = "enum_millimeter_ranges"
    /\ Separated(tokens)
    /\ "range" \in Kinds(tokens)

\* C8 as stated: a text with at least one "A mm - B mm" range, written with or
\* without spaces between number, unit and hyphen, gives exactly its ranges in
\* order of appearance and no degenerate pair for a standalone "N mm" token.
C8_AsStated == HasRangeText => out = Result(FALSE, RangesWritten(tokens))

\* C8 amended: the same, for ranges written with no white space between a
\* number and its unit ("A-Bmm", "Amm-Bmm", "Amm - Bmm").
C8_RangesExactly ==
    (HasRangeText /\ \A i \in 1..Len(tokens) : IsRange(tokens[i]) => Tight(tokens[i]))
        => out = Result(FALSE, RangesWritten(tokens))

\* a text with a standalone "N mm" token and a range was given to the extractor
C8_Witness ==
    /\ HasRangeText
    /\ \A i \in 1..Len(tokens) : IsRange(tokens[i]) => Tight(tokens[i])
    /\ "mm" \in Kinds(tokens)
    /\ Len(out.vals) = 1

OnlySinglesText ==
    /\ op = "enum_millimeter_ranges"
    /\ Separated(tokens)
    /\ "mm" \in Kinds(tokens)
    /\ Kinds(tokens) \subseteq {"mm", "sep"}

\* C9 as stated: a text with only bare "N mm" tokens and no range gives one
\* degenerate pair (N, N) per token, in order of appearance.
C9_AsStated == OnlySinglesText => out = Result(FALSE, SinglesWritten(tokens))

\* C9 amended: the same, for tokens written "Nmm", with no white space between
\* the number and "mm".
C9_SinglesExactly ==
    (OnlySinglesText /\ \A i \in 1..Len(tokens) : Tight(tokens[i]))
        => out = Result(FALSE, SinglesWritten(tokens))

\* two bare tokens were given to the extractor and came back as two pairs
C9_Witness ==
    /\ OnlySinglesText
    /\ \A i \in 1..Len(tokens) : Tight(tokens[i])
    /\ Len(SelectSeq(tokens, IsMm)) = 2
    /\ Len(out.vals) = 2
    /\ out.vals[1] # out.vals[2]

\* the numbers of the "f/N" tokens ("f/A-B" writes two), in order
RECURSIVE FNumbersWritten(_)
FNumbersWritten(ts) ==
    IF ts = << >> THEN << >>
    ELSE (IF ~ IsF(ts[1]) THEN << >>
          ELSE IF ts[1].st = 1 THEN <<ToFloat(ts[1].a), ToFloat(ts[1].b)>>
          ELSE <<ToFloat(ts[1].a)>>) \o FNumbersWritten(Tail(ts))

\* C10 as stated: enum_f_numbers gives the numbers of the "f/N" tokens and
\* falls back to bare decimals only when there is no "f/N" token;
\* "f/3.5-4.5" gives exactly [3.5, 4.5]; in the fallback a number immediately
\* followed by "m" ("0.45m") contributes no value.
C10_AsStated ==
    op = "enum_f_numbers" =>
        /\ (Separated(tokens) /\ "f" \in Kinds(tokens))
              => out = Result(FALSE, FNumbersWritten(tokens))
        /\ (tokens = <<Tok("f", Chars("3.5"), Chars("4.5"), 1)>>)
              => out = Result(FALSE, <<ToFloat(Chars("3.5")), ToFloat(Chars("4.5"))>>)
        /\ (Separated(tokens) /\ Kinds(tokens) \subseteq {"m", "sep"}
               /\ \A i \in 1..Len(tokens) : tokens[i].kind = "m" => tokens[i].st = 0)
              => out = Result(FALSE, << >>)

-----------------------------------------------------------------------------
(* enum_square_millimeters of utils.py, and min / max over floats *)

\* the list of (float(n1), float(n2)) is built before anything is yielded
enum_square_millimeters(s) ==
    LET Pairs(pairs) ==
            IF ~ AllFloatOk(pairs) THEN Result(TRUE, << >>)
            ELSE Result(FALSE, [i \in 1..Len(pairs) |->
                                   <<ToFloat(pairs[i].g1), ToFloat(pairs[i].g2)>>])
    IN  Pairs(FindAll(MatchSquare, s, 1))

DecLeq(x, y) == ~ DecLess(y, x)

RECURSIVE MinDec(_)
\* min(...) of a non-empty list of floats
MinDec(xs) ==
    IF Len(xs) = 1 THEN xs[1]
    ELSE LET m == MinDec(Tail(xs)) IN IF DecLess(m, xs[1]) THEN m ELSE xs[1]

RECURSIVE MaxDec(_)
\* max(...) of a non-empty list of floats
MaxDec(xs) ==
    IF Len(xs) = 1 THEN xs[1]
    ELSE LET m == MaxDec(Tail(xs)) IN IF DecLess(xs[1], m) THEN m ELSE xs[1]

-----------------------------------------------------------------------------
(* The records of models.py.  A mapping (dict) is a function from the keys   *)
(* it holds; "new @@ old" is old updated with new.                           *)

\* Lens.__fields__.keys(): every field of a Lens is required
LensFields ==
    {"id", "name", "brand", "mount",
     "min_focal_length", "max_focal_length", "min_f_value",
     "max_f_value", "min_focus_distance", "keywords"}

\* the fields of a Camera that are not Optional
CameraRequired ==
    {"id", "name", "brand", "mount",
     "media_width", "media_height", "size_name",
     "keywords"}

\* the value of an Optional field that was not given
None == "None"

\* the size name, or None
infer_media_size_name(width, height, for_nikon) ==
    IF DecLeq(Dec(356, 1), width) /\ DecLeq(width, Dec(360, 1))
          /\ DecLeq(Dec(238, 1), height) /\ DecLeq(height, Dec(240, 1))
    THEN (IF for_nikon THEN "FX" ELSE "35mm")
    ELSE IF DecLeq(Dec(207, 1), width) /\ DecLeq(width, Dec(237, 1))
          /\ DecLeq(Dec(138, 1), height) /\ DecLeq(height, Dec(158, 1))
    THEN (IF for_nikon THEN "DX" ELSE "APS-C")
    ELSE None

\* the empty mapping {}
NoPairs == << >>

Has(pairs, k) == k \in DOMAIN pairs

-----------------------------------------------------------------------------
(* Model names, and the spec data forced for some of them *)

\* mutant: no spec data is forced for any lens
nikon_known_lens_specs_none(name) == NoPairs

\* nikon._known_lens_specs.get(name, {})
nikon_known_lens_specs(name) ==
    CASE name = Chars("AI AF Zoom-Nikkor 18-35mm f/3.5-4.5D IF-ED") -> ("min_f_value" :> Dec(35, 1))
      [] name = Chars("AI AF Zoom Nikkor 24~50mm F3.3~4.5D") -> ("min_focus_distance" :> Dec(600, 0))
      [] name = Chars("AI Micro-Nikkor 55mm f/2.8S") -> ("min_focus_distance" :> Dec(250, 0))
      [] name = Chars("AI Micro-Nikkor 105mm f/2.8S") ->
             ("min_focal_length" :> Dec(105, 0))
                @@ ("min_focus_distance" :> Dec(410, 0))
      [] OTHER -> NoPairs

\* nikon._known_camera_specs.get(name, {})
nikon_known_camera_specs(name) ==
    IF name = Chars("D1") THEN ("mount" :> MOUNT_F) ELSE NoPairs

Mount_A == "Sony A"
Mount_E == "Sony E"

\* sony._known_camera_specs.get(name, {})
sony_known_camera_specs(name) ==
    IF name = Chars("DSLR-A900") THEN ("mount" :> Mount_A) ELSE NoPairs

-----------------------------------------------------------------------------
(* The property recognizers.  The label of a table row is one symbol, named  *)
(* after the Japanese word it stands for: keishiki (type), shoten_kyori      *)
(* (focal length), saitan_satsuei_kyori (minimum focus distance),            *)
(* saisho_shibori (minimum aperture), saidai_shibori (maximum aperture),     *)
(* lens_mount, satsuzo_soshi (image sensor), satsuzo_soshi_hoshiki (image    *)
(* sensor type), hoshiki (type), shiyo_lens (lenses to use).                 *)

\* what a recognizer call or a scan of rows gives: the pairs it got, or the
\* exception it raised
Scanned(kind, msg, pairs) == [kind |-> kind, msg |-> msg, pairs |-> pairs]

Got(pairs) == Scanned("ok", "", pairs)

Raised(kind, msg) == Scanned(kind, msg, NoPairs)

Firsts(ps) == [i \in 1..Len(ps) |-> ps[i][1]]

Seconds(ps) == [i \in 1..Len(ps) |-> ps[i][2]]

_recognize_lens_property(key, value) ==
    LET Type(mount) ==
            IF mount = "ParseError"
            THEN Raised("ParseError", "unrecognizable mount description")
            ELSE Got("mount" :> mount)
        FocalLength(ranges) ==
            IF ranges.raised THEN Raised("ValueError", "float")
            ELSE IF ranges.vals # << >>
            THEN Got(("min_focal_length" :> MinDec(Firsts(ranges.vals)))
                     @@ ("max_focal_length" :> MaxDec(Seconds(ranges.vals))))
            ELSE Got(NoPairs)
        FocusDistance(values) ==
            IF values.raised THEN Raised("ValueError", "float")
            ELSE IF values.vals # << >>
            THEN Got("min_focus_distance" :> MinDec(values.vals))
            ELSE Got(NoPairs)
        MinAperture(values) ==
            IF values.raised THEN Raised("ValueError", "float")
            ELSE IF values.vals # << >>
            THEN Got("max_f_value" :> MaxDec(values.vals))
            ELSE Got(NoPairs)
        MaxAperture(values) ==
            IF values.raised THEN Raised("ValueError", "float")
            ELSE IF values.vals # << >>
            THEN Got("min_f_value" :> MinDec(values.vals))
            ELSE Got(NoPairs)
    IN  CASE key = <<"keishiki">> -> Type(_parse_mount_name(value))
          [] key = <<"shoten_kyori">> ->
                 FocalLength(enum_millimeter_ranges(_remove_parens(value)))
          [] key = <<"saitan_satsuei_kyori">> ->
                 FocusDistance(enum_millimeter_values(_remove_parens(value)))
          [] key = <<"saisho_shibori">> -> MinAperture(enum_f_numbers(value))
          [] key = <<"saidai_shibori">> -> MaxAperture(enum_f_numbers(value))
          [] OTHER -> Got(NoPairs)

\* the width and height, when the text holds exactly one area
SensorProps(areas) ==
    IF areas.raised THEN Raised("ValueError", "float")
    ELSE IF Len(areas.vals) = 1
    THEN Got(("media_width" :> areas.vals[1][1])
                    @@ ("media_height" :> areas.vals[1][2]))
    ELSE Got(NoPairs)

\* nikon._recognize_camera_property
nikon_recognize_camera_property(key, value) ==
    IF key = <<"lens_mount">>
    THEN LET mount == _parse_mount_name(value)
         IN  IF mount = "ParseError"
             THEN Raised("ParseError", "unrecognizable mount description")
             ELSE Got("mount" :> mount)
    ELSE IF key \in {<<"satsuzo_soshi">>, <<"satsuzo_soshi_hoshiki">>, <<"hoshiki">>}
    THEN SensorProps(enum_square_millimeters(value))
    ELSE Got(NoPairs)

\* sony.Mount.parse: the mount, or "ParseError".  "Ew" is U+FF25, the
\* full-width E; "sony_alpha_lens" is the phrase for lenses made by Sony.
Mount_parse(s) ==
    IF Contains(s, <<"E", "mount">>) \/ Contains(s, <<"Ew", "mount">>) THEN Mount_E
    ELSE IF Contains(s, <<"A", "mount">>) \/ Contains(s, <<"sony_alpha_lens">>)
    THEN Mount_A
    ELSE "ParseError"

\* sony._recognize_camera_property
sony_recognize_camera_property(key, value) ==
    IF key \in {<<"lens_mount">>, <<"shiyo_lens">>}
    THEN LET mount == Mount_parse(value)
         IN  IF mount = "ParseError"
             THEN Raised("ParseError", "unrecognizable mount description")
             ELSE Got("mount" :> mount)
    ELSE IF key = <<"satsuzo_soshi">>
    THEN SensorProps(enum_square_millimeters(value))
    ELSE Got(NoPairs)

\* r"(DX|FX)\s*<format>" matched at i, "format" the word in kana
MatchFormat(s, i) ==
    LET Word(j) ==
            IF (At(s, i, "D") \/ At(s, i, "F")) /\ At(s, i + 1, "X") /\ At(s, j, "format")
            THEN [ok |-> TRUE, g1 |-> SubSeq(s, i, i + 1), g2 |-> << >>, end |-> j + 1]
            ELSE NoMatch
    IN  Word(i + 2 + SpaceRun(s, i + 2))

\* camera_lens_database.nikon._recognize_camera_prop
_recognize_camera_prop(key, value) ==
    LET Props(areas, match) ==
            IF areas.raised THEN Raised("ValueError", "float")
            ELSE Got((IF match # << >>
                      THEN "size_name" :> (IF match[1].g1[1] = "D" THEN "DX" ELSE "FX")
                      ELSE NoPairs)
                     @@ (IF Len(areas.vals) = 1
                         THEN ("media_width" :> areas.vals[1][1])
                                 @@ ("media_height" :> areas.vals[1][2])
                         ELSE NoPairs))
        Mount(mount) ==
            IF mount = "ParseError"
            THEN Raised("ParseError", "unrecognizable mount description")
            ELSE Got("mount" :> mount)
    IN  IF key = <<"lens_mount">> THEN Mount(_parse_mount_name(value))
        ELSE IF key = <<"satsuzo_soshi">>
        THEN Props(enum_square_millimeters(value), FindAll(MatchFormat, value, 1))
        ELSE Got(NoPairs)

-----------------------------------------------------------------------------
(* Pages and selectors.  A page is the list of its tables in document        *)
(* order; a table carries the table selectors that select it ("table"        *)
(* selects every table) and its rows; a row is the list of its cells.        *)
(* A URI is a directory of the site, an item and the last path segment.      *)

Cell(tag, txt) == [tag |-> tag, text |-> txt]

Table(marks, rows) == [marks |-> marks, rows |-> rows]

Page(tables) == [up |-> TRUE, tables |-> tables]

\* the site does not answer: requests.get raises
DOWN == [up |-> FALSE, tables |-> << >>]

Uri(dir, item, leaf) == [dir |-> dir, item |-> item, leaf |-> leaf]

NoUri == Uri("", "", "")

\* urljoin(uri, subpath) for a relative file name: the last segment is replaced
urljoin(uri, subpath) == [uri EXCEPT !.leaf = subpath]

\* "fmount/" in uri
InFmount(uri) == uri.dir \in {"fmount", "discontinue_fmount"}

\* utils.fetch(uri): the page the site (or the cache filled from it) gives
fetch(web, uri) == web[uri]

\* soup.select(table_selector)
SelectTables(page, table_selector) ==
    LET Hit(t) == table_selector = "table" \/ table_selector \in t.marks
    IN  SelectSeq(page.tables, Hit)

Indexed(row) == [j \in 1..Len(row) |-> [pos |-> j, cell |-> row[j]]]

\* row.select(cell_selector): the selected cells with their positions
SelectCells(row, cell_selector) ==
    LET Hit(e) ==
            CASE cell_selector = "th" -> e.cell.tag = "th"
              [] cell_selector = "td" -> e.cell.tag = "td"
              [] cell_selector = "td:first-child" -> e.cell.tag = "td" /\ e.pos = 1
              [] cell_selector = "td:last-child" ->
                     e.cell.tag = "td" /\ e.pos = Len(row)
              [] cell_selector = "table th" -> e.cell.tag = "th"
              [] cell_selector = "table th ~ td" ->
                     e.cell.tag = "td" /\ \E i \in 1..(e.pos - 1) : row[i].tag = "th"
    IN  SelectSeq(Indexed(row), Hit)

RECURSIVE IntToDigits(_)
IntToDigits(n) ==
    LET Digit(d) == <<"0", "1", "2", "3", "4", "5", "6", "7", "8", "9">>[d + 1]
    IN  IF n < 10 THEN <<Digit(n)>> ELSE IntToDigits(n \div 10) \o <<Digit(n % 10)>>

\* str(uuid4()): the n-th value drawn, different from every other one
uuid4(n) == <<"u">> \o IntToDigits(n)

-----------------------------------------------------------------------------
(* One strategy of a spec reader: _read_lens, _read_camera (nikon.py) and    *)
(* _fetch_camera (sony.py).  Each gives the record, or the exception raised. *)

Params(table_selector, key_cell_selector, value_cell_selector, subpath) ==
    [table_selector |-> table_selector, key_cell_selector |-> key_cell_selector,
     value_cell_selector |-> value_cell_selector, subpath |-> subpath]

\* an exception: its message, with the keys and the URI the message names
Err(msg, keys, at) == [msg |-> msg, keys |-> keys, at |-> at]

NoErr == Err("", {}, NoUri)

\* kind is "ok" or the class of the exception; drew counts the uuid4() calls
Outcome(kind, err, rec, drew) == [kind |-> kind, err |-> err, rec |-> rec, drew |-> drew]

RECURSIVE ScanLensRows_skips(_, _, _, _)
\* mutant: a row that is not a pair of cells is passed over, as for cameras
ScanLensRows_skips(rows, pairs, ksel, vsel) ==
    IF rows = << >> THEN Scanned("ok", "", pairs)
    ELSE LET key_cells   == SelectCells(rows[1], ksel)
             value_cells == SelectCells(rows[1], vsel)
         IN  IF Len(key_cells) # 1 \/ Len(value_cells) # 1
             THEN ScanLensRows_skips(Tail(rows), pairs, ksel, vsel)
             ELSE LET r == _recognize_lens_property(Strip(key_cells[1].cell.text),
                                                    Strip(value_cells[1].cell.text))
                  IN  IF r.kind # "ok" THEN Scanned(r.kind, r.msg, pairs)
                      ELSE ScanLensRows_skips(Tail(rows), r.pairs @@ pairs, ksel, vsel)

RECURSIVE ScanLensRows(_, _, _, _)
\* the loop over spec_table.select("tr") of _read_lens
ScanLensRows(rows, pairs, ksel, vsel) ==
    IF rows = << >> THEN Scanned("ok", "", pairs)
    ELSE LET key_cells   == SelectCells(rows[1], ksel)
             value_cells == SelectCells(rows[1], vsel)
             \* "for k, v in _recognize_lens_property(...).items(): pairs[k] = v"
             Update(r) ==
                 IF r.kind # "ok" THEN Scanned(r.kind, r.msg, pairs)
                 ELSE ScanLensRows(Tail(rows), r.pairs @@ pairs, ksel, vsel)
         IN  IF Len(key_cells) # 1 \/ Len(value_cells) # 1
             THEN Scanned("ParseError", "spec table does not have 1 by 1 cell pairs", pairs)
             ELSE Update(_recognize_lens_property(Strip(key_cells[1].cell.text),
                                                  Strip(value_cells[1].cell.text)))

\* mutant: the name is read whether or not the rows gave the attributes
BackfillFromName_always(name, pairs) ==
    LET Update(r, p) ==
            IF r.kind # "ok" THEN Scanned(r.kind, r.msg, p)
            ELSE Scanned("ok", "", r.pairs @@ p)
        FValue(s1) ==
            IF s1.kind # "ok" THEN s1
            ELSE Update(_recognize_lens_property(<<"saidai_shibori">>, name), s1.pairs)
    IN  FValue(Update(_recognize_lens_property(<<"shoten_kyori">>, name), pairs))

\* "Try extracting some specs from the model name"
BackfillFromName(name, pairs) ==
    LET \* "for k, v in _recognize_lens_property(...).items(): pairs[k] = v"
        Update(r, p) ==
            IF r.kind # "ok" THEN Scanned(r.kind, r.msg, p)
            ELSE Scanned("ok", "", r.pairs @@ p)
        \* "if KEY_LENS_MIN_F_VALUE not in pairs"
        FValue(s1) ==
            IF s1.kind # "ok" THEN s1
            ELSE Update(IF ~ Has(s1.pairs, "min_f_value")
                        THEN _recognize_lens_property(<<"saidai_shibori">>, name)
                        ELSE Got(NoPairs),
                        s1.pairs)
    IN  \* "if KEY_LENS_MIN_FOCAL_LENGTH not in pairs or KEY_LENS_MAX_... not in pairs"
        FValue(Update(IF ~ Has(pairs, "min_focal_length") \/ ~ Has(pairs, "max_focal_length")
                      THEN _recognize_lens_property(<<"shoten_kyori">>, name)
                      ELSE Got(NoPairs),
                      pairs))

_read_lens(name, uri0, params, web, n) ==
    LET uri  == IF params.subpath # None THEN urljoin(uri0, params.subpath) ELSE uri0
        page == fetch(web, uri)
        selection == SelectTables(page, params.table_selector)
        init == ("id" :> uuid4(n)) @@ ("name" :> name)
                   @@ ("brand" :> "Nikon") @@ ("keywords" :> "")
        pairs0 == IF InFmount(uri) THEN ("mount" :> MOUNT_F) @@ init ELSE init
        \* "Check if all the required fields are set", then "Compose a spec
        \* object from the table content"
        Compose(pairs, lacked_keys) ==
            IF lacked_keys # {}
            THEN Outcome("ParseError", Err("cannot find", lacked_keys, NoUri), NoPairs, 1)
            ELSE IF LensFields \subseteq DOMAIN pairs
            THEN Outcome("ok", NoErr, pairs, 1)
            ELSE Outcome("CameraLensDatabaseException", Err("unexpected spec", {}, NoUri),
                         pairs, 1)
        \* "Force using some spec data"
        Force(back, known) ==
            IF back.kind # "ok"
            THEN Outcome(back.kind, Err(back.msg, {}, NoUri), NoPairs, 1)
            ELSE Compose(known @@ back.pairs, LensFields \ DOMAIN (known @@ back.pairs))
        \* "Try extracting some specs from the model name"
        Backfill(scan, back) ==
            IF scan.kind # "ok"
            THEN Outcome(scan.kind, Err(scan.msg, {}, NoUri), NoPairs, 1)
            ELSE Force(back, nikon_known_lens_specs(name))
        Rows(scan) == Backfill(scan, BackfillFromName(name, scan.pairs))
    IN  IF ~ page.up THEN Outcome("RequestException", NoErr, NoPairs, 0)
        ELSE IF Len(selection) <= 0
        THEN Outcome("ParseError", Err("spec table not found", {}, NoUri), NoPairs, 0)
        ELSE Rows(ScanLensRows(selection[1].rows, pairs0,
                               params.key_cell_selector, params.value_cell_selector))

RECURSIVE ScanCameraRows(_, _, _, _, _)
\* the loop over spec_table.select("tr") of _read_camera and _fetch_camera:
\* a row that is not a pair of cells is passed over; "by" names the module
\* whose recognizer reads the pair
ScanCameraRows(rows, pairs, ksel, vsel, by) ==
    IF rows = << >> THEN Scanned("ok", "", pairs)
    ELSE LET key_cells   == SelectCells(rows[1], ksel)
             value_cells == SelectCells(rows[1], vsel)
             Update(r) ==
                 IF r.kind # "ok" THEN Scanned(r.kind, r.msg, pairs)
                 ELSE ScanCameraRows(Tail(rows), r.pairs @@ pairs, ksel, vsel, by)
             Recognize(k, v) ==
                 CASE by = "cldb.nikon" -> nikon_recognize_camera_property(k, v)
                   [] by = "cldb.sony" -> sony_recognize_camera_property(k, v)
                   [] by = "camera_lens_database.nikon" -> _recognize_camera_prop(k, v)
         IN  IF Len(key_cells) # 1 \/ Len(value_cells) # 1
             THEN ScanCameraRows(Tail(rows), pairs, ksel, vsel, by)
             ELSE Update(Recognize(Strip(key_cells[1].cell.text),
                                   Strip(value_cells[1].cell.text)))

\* "Infer media size name if not set"
InferSize(pairs, for_nikon) ==
    LET w_and_h == /\ Has(pairs, "media_width")
                   /\ Has(pairs, "media_height")
                   /\ pairs["media_width"].n # 0
                   /\ pairs["media_height"].n # 0
    IN  IF ~ Has(pairs, "size_name") /\ w_and_h
        THEN LET size_name == infer_media_size_name(pairs["media_width"],
                                  pairs["media_height"], for_nikon)
             IN  IF size_name # None THEN ("size_name" :> size_name) @@ pairs
                 ELSE pairs
        ELSE pairs

\* models.Camera(**pairs): pydantic raises ValidationError for a missing
\* required field, and the reader raises CameraLensDatabaseException from it,
\* the pairs in its message
ComposeCamera(pairs, uri) ==
    IF CameraRequired \subseteq DOMAIN pairs
    THEN Outcome("ok", NoErr,
                 pairs @@ ("name_japan" :> None) @@ ("name_us" :> None), 1)
    ELSE Outcome("CameraLensDatabaseException", Err("unexpected spec", {}, uri), pairs, 1)

_read_camera(name, uri0, params, web, n) ==
    LET uri  == IF params.subpath # None THEN urljoin(uri0, params.subpath) ELSE uri0
        page == fetch(web, uri)
        selection == SelectTables(page, params.table_selector)
        pairs0 == ("id" :> uuid4(n)) @@ ("name" :> name)
                     @@ ("brand" :> "Nikon") @@ ("keywords" :> "")
        Rows(scan) ==
            IF scan.kind # "ok"
            THEN Outcome(scan.kind, Err(scan.msg, {}, NoUri), NoPairs, 1)
            ELSE ComposeCamera(InferSize(nikon_known_camera_specs(name) @@ scan.pairs, TRUE),
                               uri)
    IN  IF ~ page.up THEN Outcome("RequestException", NoErr, NoPairs, 0)
        ELSE IF Len(selection) <= 0
        THEN Outcome("ParseError", Err("spec table not found", {}, NoUri), NoPairs, 0)
        ELSE Rows(ScanCameraRows(selection[1].rows, pairs0, params.key_cell_selector,
                                 params.value_cell_selector, "cldb.nikon"))

\* camera_lens_database.nikon._read_camera: no spec data forced by name, no
\* size name inferred
cld__read_camera(name, uri0, params, web, n) ==
    LET uri  == IF params.subpath # None THEN urljoin(uri0, params.subpath) ELSE uri0
        page == fetch(web, uri)
        selection == SelectTables(page, params.table_selector)
        pairs0 == ("id" :> uuid4(n)) @@ ("name" :> name)
                     @@ ("brand" :> "Nikon") @@ ("keywords" :> "")
        Rows(scan) ==
            IF scan.kind # "ok"
            THEN Outcome(scan.kind, Err(scan.msg, {}, NoUri), NoPairs, 1)
            ELSE ComposeCamera(scan.pairs, uri)
    IN  IF ~ page.up THEN Outcome("RequestException", NoErr, NoPairs, 0)
        ELSE IF Len(selection) <= 0
        THEN Outcome("ParseError", Err("spec table not found", {}, NoUri), NoPairs, 0)
        ELSE Rows(ScanCameraRows(selection[1].rows, pairs0, params.key_cell_selector,
                                 params.value_cell_selector, "camera_lens_database.nikon"))

_fetch_camera(name, uri0, pp, web, n) ==
    LET uri  == IF pp.subpath # None THEN urljoin(uri0, pp.subpath) ELSE uri0
        page == fetch(web, uri)
        selection == SelectTables(page, pp.table_selector)
        pairs0 == ("id" :> uuid4(n)) @@ ("name" :> name)
                     @@ ("brand" :> "Sony") @@ ("keywords" :> "")
        Rows(scan) ==
            IF scan.kind # "ok"
            THEN Outcome(scan.kind, Err(scan.msg, {}, NoUri), NoPairs, 1)
            ELSE ComposeCamera(InferSize(sony_known_camera_specs(name) @@ scan.pairs, FALSE),
                               uri)
    IN  IF ~ page.up THEN Outcome("RequestException", NoErr, NoPairs, 0)
        ELSE IF Len(selection) <= 0
        THEN Outcome("ParseError", Err("spec table not found", {}, uri), NoPairs, 0)
        ELSE Rows(ScanCameraRows(selection[1].rows, pairs0, pp.key_cell_selector,
                                 pp.value_cell_selector, "cldb.sony"))

-----------------------------------------------------------------------------
(* The spec readers read_lens, read_camera (nikon.py) and fetch_camera       *)
(* (sony.py): the strategies in list order, ParseError caught and recorded.  *)

read_lens_mode_values ==
    <<Params("table.table-A01-group", "th", "td", None),
      Params("a#spec ~ table", "td:first-child", "td:last-child", None),
      Params("div#spec ~ table", "th", "td", "spec.html")>>

read_camera_mode_values ==
    <<Params("div#spec ~ table", "th", "td", "spec.html"),
      Params("table.table-A01-group", "th", "td", "spec.html"),
      Params("table", "td:first-child", "td:last-child", "spec.html")>>

fetch_camera_parse_params ==
    <<Params(".s5-specTable > table", "th", "td", "spec.html"),
      Params(".mod-specTable", "table th", "table th ~ td", "spec.html")>>

\* camera_lens_database.nikon.read_camera: one strategy
cld_read_camera_mode_values ==
    <<Params("div#spec ~ table", "th", "td", "spec.html")>>

ModeValues(reader) ==
    CASE reader = "read_lens" -> read_lens_mode_values
      [] reader = "read_camera" -> read_camera_mode_values
      [] reader = "fetch_camera" -> fetch_camera_parse_params
      [] reader = "camera_lens_database.read_camera" -> cld_read_camera_mode_values

\* the body of the try: one strategy, mode counted from 0 as enumerate does
ReadOnce(reader, name, uri, mode, web, n) ==
    CASE reader = "read_lens" ->
             _read_lens(name, uri, read_lens_mode_values[mode + 1], web, n)
      [] reader = "read_camera" ->
             _read_camera(name, uri, read_camera_mode_values[mode + 1], web, n)
      [] reader = "fetch_camera" ->
             _fetch_camera(name, uri, fetch_camera_parse_params[mode + 1], web, n)
      [] reader = "camera_lens_database.read_camera" ->
             cld__read_camera(name, uri, cld_read_camera_mode_values[mode + 1], web, n)

\* errors.append((mode, ex))
Entry(mode, err) == [mode |-> mode, err |-> err]

\* "\n".join(msglines): the line naming the item, then one line per entry
MsgLines(name, uri, errors) == [name |-> name, uri |-> uri, entries |-> errors]

NoMsgLines == MsgLines(<< >>, NoUri, << >>)

\* what a reader call ends with: the record returned, or the exception raised
\* (the aggregate one with its lines, another one with its own message)
Final(kind, rec, err, msglines, drew) ==
    [kind |-> kind, rec |-> rec, err |-> err, msglines |-> msglines, drew |-> drew]

RECURSIVE ReadLoop(_, _, _, _, _, _, _)
\* a whole call of a reader, from strategy "mode" on with "errors" recorded
ReadLoop(reader, name, uri, web, mode, errors, n) ==
    IF mode >= Len(ModeValues(reader))
    THEN Final("CameraLensDatabaseException", NoPairs, NoErr,
               MsgLines(name, uri, errors), n)
    ELSE LET Try(r) ==
                 IF r.kind = "ok" THEN Final("ok", r.rec, NoErr, NoMsgLines, n + r.drew)
                 ELSE IF r.kind = "ParseError"
                 THEN ReadLoop(reader, name, uri, web, mode + 1,
                               Append(errors, Entry(mode, r.err)), n + r.drew)
                 ELSE Final(r.kind, r.rec, r.err, NoMsgLines, n + r.drew)
         IN  Try(ReadOnce(reader, name, uri, mode, web, n))

-----------------------------------------------------------------------------
(* The pages a reader is called on *)

MaxTables == 2

\* a row of a label cell (th or td) and a value cell
Row2(key_tag, label, value) == <<Cell(key_tag, label), Cell("td", value)>>

\* a heading row: one th cell over the width of the table
HeadingRow == <<Cell("th", <<"heading">>)>>

LensRows(variant, key_tag) ==
    LET type     == Row2(key_tag, <<"keishiki">>, Chars(" nikon Z mount "))
        bad_type == Row2(key_tag, <<"keishiki">>, Chars("nikon1mount"))
        focal    == Row2(key_tag, <<"shoten_kyori">>, Chars("50mm"))
        distance == Row2(key_tag, <<"saitan_satsuei_kyori">>, Chars("0.45m"))
        min_ap   == Row2(key_tag, <<"saisho_shibori">>, Chars("f/16"))
        max_ap   == Row2(key_tag, <<"saidai_shibori">>, Chars("f/1.8"))
    IN  CASE variant = "full" -> <<type, focal, distance, min_ap, max_ap>>
          [] variant = "no_distance" -> <<type, focal, min_ap, max_ap>>
          [] variant = "heading" -> <<type, HeadingRow, focal, distance, min_ap, max_ap>>
          [] variant = "bad_mount" -> <<bad_type, focal, distance, min_ap, max_ap>>
          [] variant = "name_only" -> <<type, distance, min_ap>>
          [] variant = "no_min_ap" -> <<type, focal, distance, max_ap>>

\* the tables of a lens page (modes 0 and 1 read it)
LensIndexTables ==
    {Table({"table.table-A01-group"}, LensRows("full", "th")),
     Table({"a#spec ~ table"}, LensRows("full", "td")),
     Table({"table.table-A01-group"}, LensRows("heading", "th")),
     Table({"table.table-A01-group"}, LensRows("no_distance", "th")),
     Table({"a#spec ~ table"}, LensRows("bad_mount", "td")),
     Table({}, LensRows("full", "th"))}

\* the tables of the spec.html of a lens (mode 2 reads it)
LensSpecTables ==
    {Table({"div#spec ~ table"}, LensRows("full", "th")),
     Table({"div#spec ~ table"}, LensRows("name_only", "th")),
     Table({}, LensRows("full", "th"))}

CameraRows(variant, key_tag, mount_text, sensor_text) ==
    LET mount     == Row2(key_tag, <<"lens_mount">>, mount_text)
        bad_mount == Row2(key_tag, <<"lens_mount">>, Chars("other"))
        sensor    == Row2(key_tag, <<"satsuzo_soshi">>, sensor_text)
    IN  CASE variant = "full" -> <<mount, sensor>>
          [] variant = "heading" -> <<HeadingRow, mount, sensor>>
          [] variant = "no_mount" -> <<sensor>>
          [] variant = "bad_mount" -> <<bad_mount, sensor>>

\* the tables of the spec.html of a Nikon camera
NikonCameraTables ==
    {Table({"div#spec ~ table"}, CameraRows("full", "th", Chars("nikonFmount"), Chars("35.9*23.9mm cmos"))),
     Table({"table.table-A01-group"}, CameraRows("heading", "th", Chars("nikonFmount"), Chars("35.9*23.9mm cmos"))),
     Table({}, CameraRows("full", "td", Chars("nikonFmount"), Chars("35.9*23.9mm cmos"))),
     Table({"div#spec ~ table"}, CameraRows("no_mount", "th", Chars("nikonFmount"), Chars("35.9*23.9mm cmos"))),
     Table({"div#spec ~ table"}, CameraRows("bad_mount", "th", Chars("nikonFmount"), Chars("35.9*23.9mm cmos"))),
     Table({"table.table-A01-group"}, CameraRows("full", "th", Chars("nikonFmount"), Chars("13.2*8.8mm")))}

\* the tables of the spec.html of a Sony camera
SonyCameraTables ==
    {Table({".s5-specTable > table"}, CameraRows("full", "th", Chars("sony Emount"), Chars("35.6*23.8mm"))),
     Table({".mod-specTable"}, CameraRows("heading", "th", Chars("sony Emount"), Chars("35.6*23.8mm"))),
     Table({".s5-specTable > table"}, CameraRows("no_mount", "th", Chars("sony Emount"), Chars("35.6*23.8mm"))),
     Table({".s5-specTable > table"}, CameraRows("bad_mount", "th", Chars("sony Emount"), Chars("35.6*23.8mm"))),
     Table({}, CameraRows("full", "th", Chars("sony Emount"), Chars("35.6*23.8mm")))}

\* the pages of at most MaxTables tables of a catalog, and the site being down
Pages(catalog) ==
    {Page(ts) : ts \in UNION {[1..n -> catalog] : n \in 0..MaxTables}} \cup {DOWN}

Item(reader, name, uri) == [reader |-> reader, name |-> name, uri |-> uri]

\* the calls: two lenses in two directories of the Nikon site, two Nikon
\* cameras and two Sony cameras
Items ==
    {Item("read_lens", nm, Uri(d, "a", "index.html")) :
        nm \in {Chars("Nikkor Z 50mm f/1.8 S"), Chars("AI Micro-Nikkor 55mm f/2.8S")},
        d \in {"fmount", "zmount"}}
    \cup {Item("read_camera", nm, Uri("slr", "a", "index.html")) :
             nm \in {Chars("D1"), Chars("D850")}}
    \cup {Item("fetch_camera", nm, Uri("ichigan", "a", "index.html")) :
             nm \in {Chars("DSLR-A900"), Chars("ILCE-7")}}

\* what the site serves at the URIs the reader of an item fetches
Webs(item) ==
    LET spec == urljoin(item.uri, "spec.html")
    IN  CASE item.reader = "read_lens" ->
                 {(item.uri :> p1) @@ (spec :> p2) :
                     p1 \in Pages(LensIndexTables), p2 \in Pages(LensSpecTables)}
          [] item.reader = "read_camera" -> {(spec :> p) : p \in Pages(NikonCameraTables)}
          [] item.reader = "fetch_camera" -> {(spec :> p) : p \in Pages(SonyCameraTables)}

-----------------------------------------------------------------------------
(* One call of a reader, strategy by strategy *)

InitReader ==
    /\ TextIdle
    /\ rd_item \in Items
    /\ rd_web \in Webs(rd_item)
    /\ rd_mode = 0
    /\ rd_errors = << >>
    /\ rd_status = "trying"
    /\ rd_result = << >>
    /\ rd_uuid = 0
    /\ FetchIdle
    /\ EnumIdle
    /\ CacheIdle
    /\ PoolIdle
    /\ PurgeIdle

\* the strategy the loop is at, applied
Attempt == ReadOnce(rd_item.reader, rd_item.name, rd_item.uri, rd_mode, rd_web, rd_uuid)

InLoop == rd_status = "trying" /\ rd_mode < Len(ModeValues(rd_item.reader))

\* "return _read_lens(name, uri, params)"
StrategyReturns ==
    LET Returns(r) ==
            /\ r.kind = "ok"
            /\ rd_status' = "returned"
            /\ rd_result' = Final("ok", r.rec, NoErr, NoMsgLines, rd_uuid + r.drew)
            /\ rd_uuid' = rd_uuid + r.drew
    IN  /\ InLoop
        /\ Returns(Attempt)
        /\ UNCHANGED <<rd_item, rd_web, rd_mode, rd_errors, textVars, fetchVars, enumVars, cacheVars,
               poolVars, purgeVars>>

\* mutant: a failed strategy makes the loop pass over the one after it
StrategyFails_skips_one ==
    LET Fails(r) ==
            /\ r.kind = "ParseError"
            /\ rd_errors' = Append(rd_errors, Entry(rd_mode, r.err))
            /\ rd_mode' = rd_mode + 2
            /\ rd_uuid' = rd_uuid + r.drew
    IN  /\ InLoop
        /\ Fails(Attempt)
        /\ UNCHANGED <<rd_item, rd_web, rd_status, rd_result, textVars, fetchVars, enumVars, cacheVars,
               poolVars, purgeVars>>

\* "except ParseError as ex: errors.append((mode, ex))", and on to the next
StrategyFails ==
    LET Fails(r) ==
            /\ r.kind = "ParseError"
            /\ rd_errors' = Append(rd_errors, Entry(rd_mode, r.err))
            /\ rd_mode' = rd_mode + 1
            /\ rd_uuid' = rd_uuid + r.drew
    IN  /\ InLoop
        /\ Fails(Attempt)
        /\ UNCHANGED <<rd_item, rd_web, rd_status, rd_result, textVars, fetchVars, enumVars, cacheVars,
               poolVars, purgeVars>>

\* mutant: an exception that is no ParseError is recorded like one, and the
\* loop goes on
StrategyRaises_records ==
    LET Raises(r) ==
            /\ r.kind \notin {"ok", "ParseError"}
            /\ rd_errors' = Append(rd_errors, Entry(rd_mode, r.err))
            /\ rd_mode' = rd_mode + 1
            /\ rd_uuid' = rd_uuid + r.drew
    IN  /\ InLoop
        /\ Raises(Attempt)
        /\ UNCHANGED <<rd_item, rd_web, rd_status, rd_result, textVars, fetchVars, enumVars, cacheVars,
               poolVars, purgeVars>>

\* any other exception leaves the loop and the reader
StrategyRaises ==
    LET Raises(r) ==
            /\ r.kind \notin {"ok", "ParseError"}
            /\ rd_status' = "raised"
            /\ rd_result' = Final(r.kind, r.rec, r.err, NoMsgLines, rd_uuid + r.drew)
            /\ rd_uuid' = rd_uuid + r.drew
    IN  /\ InLoop
        /\ Raises(Attempt)
        /\ UNCHANGED <<rd_item, rd_web, rd_mode, rd_errors, textVars, fetchVars, enumVars, cacheVars,
               poolVars, purgeVars>>

\* after the loop: "raise CameraLensDatabaseException("\n".join(msglines))"
Exhausted ==
    /\ rd_status = "trying"
    /\ rd_mode >= Len(ModeValues(rd_item.reader))
    /\ rd_status' = "raised"
    /\ rd_result' = Final("CameraLensDatabaseException", NoPairs, NoErr,
                          MsgLines(rd_item.name, rd_item.uri, rd_errors), rd_uuid)
    /\ UNCHANGED <<rd_item, rd_web, rd_mode, rd_errors, rd_uuid, textVars, fetchVars, enumVars, cacheVars,
               poolVars, purgeVars>>

NextReader == StrategyReturns \/ StrategyFails \/ StrategyRaises \/ Exhausted

SpecReader == InitReader /\ [][NextReader]_vars

-----------------------------------------------------------------------------
(* Properties of the spec readers (under SpecReader) *)

NumModes == Len(ModeValues(rd_item.reader))

\* the call ended by the exception raised after the loop
Aggregate ==
    rd_status = "raised" /\ rd_result.kind = "CameraLensDatabaseException"
        /\ rd_result.err = NoErr

\* strategy j has been tried: it failed and the loop went on, or the call
\* ended in it
Attempted(j) ==
    j < rd_mode \/ (j = rd_mode /\ rd_status \in {"returned", "raised"} /\ ~ Aggregate)

ReturnedAt(j) == rd_status = "returned" /\ rd_mode = j

\* what strategy j gives on the pages of the item, the n-th uuid at hand
StrategyOutcome(j, n) ==
    ReadOnce(rd_item.reader, rd_item.name, rd_item.uri, j, rd_web, n)

C5_State ==
    /\ Len(rd_errors) = rd_mode
    /\ \A i \in 1..Len(rd_errors) :
          /\ rd_errors[i].mode = i - 1
          /\ StrategyOutcome(i - 1, 0).kind = "ParseError"
          /\ rd_errors[i].err = StrategyOutcome(i - 1, 0).err
    /\ rd_status = "returned" =>
          /\ rd_mode < NumModes
          /\ rd_result.kind = "ok"
          /\ StrategyOutcome(rd_mode, rd_result.drew - 1).kind = "ok"
          /\ rd_result.rec = StrategyOutcome(rd_mode, rd_result.drew - 1).rec
    /\ Aggregate =>
          /\ Len(rd_errors) = NumModes
          /\ rd_result.msglines =
                [name |-> rd_item.name, uri |-> rd_item.uri, entries |-> rd_errors]

\* C5: the strategies are tried in list order from the first (the errors
\* recorded are those of strategies 0, 1, ... in order, each a ParseError of
\* that strategy); the first strategy that succeeds returns its record and
\* nothing is tried after a call has ended; when every strategy fails with a
\* ParseError the aggregate exception lists one entry per strategy, in order,
\* with that strategy's message.
C5_InOrder == [](C5_State) /\ [][rd_status = "trying"]_readerVars

\* a page that only the second strategy can read still gives a record
C5_Witness ==
    /\ ReturnedAt(1)
    /\ Len(rd_errors) = 1
    /\ rd_errors[1].err.msg = "spec table not found"

\* the page strategy j reads
PageOf(j) ==
    LET params == ModeValues(rd_item.reader)[j + 1]
    IN  fetch(rd_web, IF params.subpath # None THEN urljoin(rd_item.uri, params.subpath)
                      ELSE rd_item.uri)

\* the positions of the tables that the table selector of strategy j selects
Found(j) ==
    LET sel == ModeValues(rd_item.reader)[j + 1].table_selector
    IN  {i \in 1..Len(PageOf(j).tables) :
            sel = "table" \/ sel \in PageOf(j).tables[i].marks}

FirstFound(j) ==
    PageOf(j).tables[CHOOSE i \in Found(j) : \A i2 \in Found(j) : i <= i2]

\* the row has exactly one key cell and one value cell for strategy j
RowIsPair(j, row) ==
    LET params == ModeValues(rd_item.reader)[j + 1]
    IN  /\ Len(SelectCells(row, params.key_cell_selector)) = 1
        /\ Len(SelectCells(row, params.value_cell_selector)) = 1

AllRowsPairs(j) ==
    \A r \in 1..Len(FirstFound(j).rows) : RowIsPair(j, FirstFound(j).rows[r])

\* the lens recognizer accepts the row (raises nothing on it)
LensRowAccepted(j, row) ==
    LET params == ModeValues(rd_item.reader)[j + 1]
    IN  /\ RowIsPair(j, row)
        /\ _recognize_lens_property(
               Strip(SelectCells(row, params.key_cell_selector)[1].cell.text),
               Strip(SelectCells(row, params.value_cell_selector)[1].cell.text)).kind = "ok"

\* the first row the lens reader cannot go past is one that is not a pair
StopsAtOddRow(j) ==
    \E r \in 1..Len(FirstFound(j).rows) :
        /\ ~ RowIsPair(j, FirstFound(j).rows[r])
        /\ \A q \in 1..(r - 1) : LensRowAccepted(j, FirstFound(j).rows[q])

RecordedAs(j, msg) == j < rd_mode /\ rd_errors[j + 1].err.msg = msg

\* C6 as stated: a strategy succeeds only on exactly one table whose rows are
\* all pairs; no table, or a row that is not a pair, is recorded and the next
\* strategy is tried, in every reader
C6_AsStated ==
    \A j \in 0..(NumModes - 1) : (Attempted(j) /\ PageOf(j).up) =>
        /\ ReturnedAt(j) => (Cardinality(Found(j)) = 1 /\ AllRowsPairs(j))
        /\ (Found(j) = {} \/ ~ AllRowsPairs(j)) => j < rd_mode

\* C6: a strategy whose selector finds no table fails with "spec table not
\* found", recorded before the next strategy is tried, in every reader; when
\* tables are found the first is read.  In the lens reader a row that is not
\* one key cell and one value cell fails the strategy ("1 by 1" recorded when
\* the rows before it were accepted) and no lens is returned from a table with
\* such a row; the camera readers pass over such rows and never record it.
C6_Structural ==
    \A j \in 0..(NumModes - 1) : (Attempted(j) /\ PageOf(j).up) =>
        /\ Found(j) = {} <=> RecordedAs(j, "spec table not found")
        /\ (rd_item.reader = "read_lens" /\ Found(j) # {}) =>
              /\ StopsAtOddRow(j) <=>
                    RecordedAs(j, "spec table does not have 1 by 1 cell pairs")
              /\ ReturnedAt(j) => AllRowsPairs(j)
        /\ rd_item.reader # "read_lens" =>
              ~ RecordedAs(j, "spec table does not have 1 by 1 cell pairs")

\* a camera page whose first strategy finds no table and whose second finds
\* two, the first of them with a heading row: the camera is returned
C6_Witness ==
    /\ rd_item.reader = "read_camera"
    /\ ReturnedAt(1)
    /\ RecordedAs(0, "spec table not found")
    /\ Cardinality(Found(1)) = 2
    /\ ~ AllRowsPairs(1)

\* C7 as stated: a mapping that lacks a required field is never raised as the
\* validation exception ("unexpected spec") that ends the call; in the lens
\* reader and in the camera readers it is a recorded parse failure
C7_AsStated ==
    rd_status = "raised" =>
        ~ (rd_result.kind = "CameraLensDatabaseException"
              /\ rd_result.err.msg = "unexpected spec")

-----------------------------------------------------------------------------
(* Strings as Python and pandas order them: by code point, character by      *)
(* character; str.lower() folds the letters A to Z.                          *)

AsciiUpper ==
    <<"A", "B", "C", "D", "E", "F", "G", "H", "I", "J", "K", "L", "M",
      "N", "O", "P", "Q", "R", "S", "T", "U", "V", "W", "X", "Y", "Z">>

AsciiLower ==
    <<"a", "b", "c", "d", "e", "f", "g", "h", "i", "j", "k", "l", "m",
      "n", "o", "p", "q", "r", "s", "t", "u", "v", "w", "x", "y", "z">>

\* the characters of names, brands, mounts and identifiers, by code point
Ascii ==
    <<" ", "-", ".", "/", "0", "1", "2", "3", "4", "5", "6", "7", "8", "9">>
        \o AsciiUpper \o AsciiLower

ord(c) == CHOOSE i \in 1..Len(Ascii) : Ascii[i] = c

\* str.lower()
lower(s) ==
    [i \in 1..Len(s) |->
        IF \E k \in 1..Len(AsciiUpper) : AsciiUpper[k] = s[i]
        THEN AsciiLower[CHOOSE k \in 1..Len(AsciiUpper) : AsciiUpper[k] = s[i]]
        ELSE s[i]]

RECURSIVE StrLess(_, _)
\* str < str: character by character, by code point
StrLess(a, b) ==
    IF b = << >> THEN FALSE
    ELSE IF a = << >> THEN TRUE
    ELSE IF ord(a[1]) < ord(b[1]) THEN TRUE
    ELSE IF ord(b[1]) < ord(a[1]) THEN FALSE
    ELSE StrLess(Tail(a), Tail(b))

RECURSIVE KeyLess(_, _)
\* the rows compared by their keys: tuples of str, element by element
KeyLess(a, b) ==
    IF b = << >> THEN FALSE
    ELSE IF a = << >> THEN TRUE
    ELSE IF StrLess(a[1], b[1]) THEN TRUE
    ELSE IF StrLess(b[1], a[1]) THEN FALSE
    ELSE KeyLess(Tail(a), Tail(b))

-----------------------------------------------------------------------------
(* Datasets: a CSV file is its header (the set of column names) and its      *)
(* rows in file order, a row a mapping from column name to cell.             *)

Dataset(header, rows) == [header |-> header, rows |-> rows]

\* the characters of a cell of a string column (a name is kept as characters)
CellText(c, row) == IF c \in {"name", "Name"} THEN row[c] ELSE Chars(row[c])

RECURSIVE sort_values(_, _, _)
\* DataFrame.sort_values(by=by, kind="mergesort", key=Key): a stable sort
\* by the tuple of the keyed cells of the columns "by"; "folded" are the
\* columns for which the key function returns col.str.lower()
sort_values(rows, by, folded) ==
    IF rows = << >> THEN << >>
    ELSE LET sorted == sort_values(SubSeq(rows, 1, Len(rows) - 1), by, folded)
             K(r) == [i \in 1..Len(by) |->
                         IF by[i] \in folded THEN lower(CellText(by[i], r))
                         ELSE CellText(by[i], r)]
             \* the rows that stay ahead of the last row: those not greater
             before == {i \in 1..Len(sorted) :
                           ~ KeyLess(K(rows[Len(rows)]), K(sorted[i]))}
         IN  SubSeq(sorted, 1, Cardinality(before)) \o <<rows[Len(rows)]>>
                 \o SubSeq(sorted, Cardinality(before) + 1, Len(sorted))

-----------------------------------------------------------------------------
(* The fetch command (cli/fetch.py, fetch.py) for the target "camera", run   *)
(* with --cameras-csv cameras.csv -o cameras.csv, and the sort script        *)
(* (sort.py) run after it.                                                   *)

\* mutant: the identifiers of the prior dataset are kept as written
orig_id_map_keeps_case(rows) ==
    LET names == {rows[i]["Name"] : i \in 1..Len(rows)}
        First(nm) == CHOOSE i \in 1..Len(rows) :
                         rows[i]["Name"] = nm /\ \A j \in 1..(i - 1) : rows[j]["Name"] # nm
        Last(nm) == CHOOSE i \in 1..Len(rows) :
                        rows[i]["Name"] = nm /\ \A j \in (i + 1)..Len(rows) : rows[j]["Name"] # nm
        Kept(k) == CHOOSE nm \in names :
                       lower(nm) = k /\ \A m \in names : lower(m) = k => First(m) <= First(nm)
    IN  [k \in {lower(nm) : nm \in names} |-> rows[Last(Kept(k))]["ID"]]

\* orig_data = pd.read_csv(path).set_index("Name")["ID"]
\* orig_id_map = {k.lower(): v.lower() for k, v in orig_data.to_dict().items()}
\* to_dict() keeps a name at the place of its first row with the ID of its
\* last row; of the names that fold to one key, the one placed last stays.
orig_id_map(rows) ==
    LET names == {rows[i]["Name"] : i \in 1..Len(rows)}
        First(nm) == CHOOSE i \in 1..Len(rows) :
                         rows[i]["Name"] = nm /\ \A j \in 1..(i - 1) : rows[j]["Name"] # nm
        Last(nm) == CHOOSE i \in 1..Len(rows) :
                        rows[i]["Name"] = nm /\ \A j \in (i + 1)..Len(rows) : rows[j]["Name"] # nm
        Kept(k) == CHOOSE nm \in names :
                       lower(nm) = k /\ \A m \in names : lower(m) = k => First(m) <= First(nm)
    IN  [k \in {lower(nm) : nm \in names} |-> lower(rows[Last(Kept(k))]["ID"])]

\* "Reuse already assigned IDs"
reuse_ids(specs, id_map) ==
    [i \in 1..Len(specs) |->
        IF lower(specs[i]["name"]) \in DOMAIN id_map
        THEN ("id" :> id_map[lower(specs[i]["name"])]) @@ specs[i]
        ELSE specs[i]]

\* detail_fetcher(args) for one element of ppargs, as parallel_apply calls it.
\* cldb: nikon.enum_equipments yields (name, uri, fetcher) and
\* _read_nikon_camera calls nikon.read_camera(*args), which takes two
\* arguments: TypeError.  camera_lens_database: nikon.read_camera(name, uri).
detail_fetcher(pkg, args, web, n) ==
    IF pkg = "cldb" THEN Final("TypeError", NoPairs, NoErr, NoMsgLines, n)
    ELSE ReadLoop("camera_lens_database.read_camera", args.name, args.uri, web,
                  0, << >>, n)

\* the cameras half of sort.py: what it raises ("" when nothing) and the
\* dataset it writes; the columns it sorts by hold strings, so
\* is_string_dtype(col) holds of each
sort_py(csv) ==
    IF {"Brand", "Mount", "Name"} \subseteq csv.header
    THEN [raised |-> "",
          data |-> Dataset(csv.header,
                           sort_values(csv.rows, <<"Brand", "Mount", "Name">>,
                                       {"Brand", "Mount", "Name"}))]
    ELSE [raised |-> "KeyError", data |-> Dataset({}, << >>)]

\* the most items the index pages list
MaxItems == 3

\* the names the index pages give
CameraNames == {Chars("D3X"), Chars("D3s"), Chars("D3S")}

\* the spec.html of an item: a spec table (F mount or Z mount, the sensor
\* with its format), a spec table without the mount, or a page without one
CameraPages ==
    {Page(<<Table({"div#spec ~ table"},
                  CameraRows("full", "th", Chars("nikonFmount"),
                             Chars("35.9*23.9mm cmos FX format")))>>),
     Page(<<Table({"div#spec ~ table"},
                  CameraRows("full", "th", Chars(" nikon Z mount "),
                             Chars("35.9*23.9mm cmos FX format")))>>),
     Page(<<Table({"div#spec ~ table"},
                  CameraRows("no_mount", "th", Chars("nikonFmount"),
                             Chars("35.9*23.9mm cmos FX format")))>>),
     Page(<< >>)}

\* abs_dest of the item listed i-th
ItemUri(i) ==
    Uri("slr", <<"item1", "item2", "item3", "item4", "item5">>[i], "index.html")

\* a row of cameras.csv (the columns the commands read)
PriorRow(id, name, mount) ==
    ("ID" :> Chars(id)) @@ ("Name" :> Chars(name))
        @@ ("Brand" :> "Nikon") @@ ("Mount" :> mount)

\* cameras.csv before the run: no row, one row, or rows not in order with
\* two names that differ in letter case only
PriorDatasets ==
    {Dataset({"ID", "Name", "Brand", "Mount"}, rows) :
        rows \in {<< >>,
                  <<PriorRow("AB-1", "D3S", MOUNT_F)>>,
                  <<PriorRow("ef-3", "D3X", MOUNT_F), PriorRow("AB-1", "D3s", MOUNT_F),
                    PriorRow("cd-2", "D3S", MOUNT_F)>>}}

\* the commands: "fetch" of cldb.cli, "fetch" of camera_lens_database (both
\* run on cameras) and the "fetch" of camera_lens_database.__main__
Commands == {"cldb", "camera_lens_database", "camera_lens_database.__main__"}

\* the state when the command has loaded orig_data and listed ppargs; the
\* command of __main__ has loaded its prior dataset and lists nothing yet
Init ==
    /\ TextIdle
    /\ ReaderIdle
    /\ EnumIdle
    /\ CacheIdle
    /\ PoolIdle
    /\ PurgeIdle
    /\ f_pkg \in Commands
    /\ f_prior \in PriorDatasets
    /\ f_csv = f_prior
    /\ \E n \in 0..(IF f_pkg = "camera_lens_database.__main__" THEN 0 ELSE MaxItems) :
          \E names \in [1..n -> CameraNames] :
             f_ppargs = [i \in 1..n |-> [name |-> names[i], uri |-> ItemUri(i)]]
    /\ f_web = << >>
    /\ f_specs = << >>
    /\ f_status = IF f_pkg = "camera_lens_database.__main__" THEN "listing" ELSE "reading"
    /\ f_exc = ""
    /\ f_uuid = 0
    /\ f_sort = "none"
    /\ f_sorted = Dataset({}, << >>)

\* the site as the reader of item i finds it: its spec.html is the page
Serving(i, page) == urljoin(f_ppargs[i].uri, "spec.html") :> page

\* parallel_apply: the detail fetcher returns a record for the next item
ApplyFetcher ==
    LET Returns(r, web) ==
            /\ r.kind = "ok"
            /\ f_specs' = Append(f_specs, r.rec)
            /\ f_uuid' = r.drew
            /\ f_web' = web @@ f_web
        Apply(i, web) == Returns(detail_fetcher(f_pkg, f_ppargs[i], web, f_uuid), web)
    IN  /\ f_status = "reading"
        /\ Len(f_specs) < Len(f_ppargs)
        /\ \E page \in CameraPages : Apply(Len(f_specs) + 1, Serving(Len(f_specs) + 1, page))
        /\ UNCHANGED <<f_pkg, f_prior, f_csv, f_ppargs, f_status, f_exc,
                       f_sort, f_sorted, textVars, readerVars, enumVars, cacheVars,
                       poolVars, purgeVars>>

\* parallel_apply: the detail fetcher raises for the next item; the exception
\* leaves parallel_apply and reaches "except Exception": traceback, exit(1)
\* (in cldb the call fails before any page is fetched)
FetcherRaises ==
    LET Raises(r, web) ==
            /\ r.kind # "ok"
            /\ f_exc' = r.kind
            /\ f_uuid' = r.drew
            /\ f_web' = IF r.kind = "TypeError" THEN f_web ELSE web @@ f_web
        Apply(i, web) == Raises(detail_fetcher(f_pkg, f_ppargs[i], web, f_uuid), web)
    IN  /\ f_status = "reading"
        /\ Len(f_specs) < Len(f_ppargs)
        /\ \E page \in CameraPages : Apply(Len(f_specs) + 1, Serving(Len(f_specs) + 1, page))
        /\ f_status' = "exit 1"
        /\ UNCHANGED <<f_pkg, f_prior, f_csv, f_ppargs, f_specs,
                       f_sort, f_sorted, textVars, readerVars, enumVars, cacheVars,
                       poolVars, purgeVars>>

\* every item read: identifiers reused, the records sorted and written.
\* The key function is "c.str.lower() if str(c) in STR_COLUMNS else c" and
\* str(c) is the printed column (its rows, then "Name: ..., dtype: object").
WriteDataset ==
    LET sort_keys == <<"brand", "mount", "name">>
        STR_COLUMNS == {"brand", "mount", "name"}
        str_of_column(c) ==
            CASE c = "brand" -> "Series(brand)"
              [] c = "mount" -> "Series(mount)"
              [] c = "name" -> "Series(name)"
        folded == {c \in {"brand", "mount", "name"} : str_of_column(c) \in STR_COLUMNS}
        Write(rows) == Dataset(DOMAIN rows[1], rows)
    IN  /\ f_status = "reading"
        /\ Len(f_specs) = Len(f_ppargs)
        /\ f_specs # << >>
        /\ f_csv' = Write(sort_values(reuse_ids(f_specs, orig_id_map(f_prior.rows)),
                                      sort_keys, folded))
        /\ f_status' = "written"
        /\ UNCHANGED <<f_pkg, f_prior, f_ppargs, f_web, f_specs, f_exc, f_uuid,
                       f_sort, f_sorted, textVars, readerVars, enumVars, cacheVars,
                       poolVars, purgeVars>>

\* no item listed: pd.DataFrame([]) has no column and sort_values raises
\* KeyError for the first sort key
NothingToSort ==
    /\ f_status = "reading"
    /\ Len(f_specs) = Len(f_ppargs)
    /\ f_specs = << >>
    /\ f_status' = "exit 1"
    /\ f_exc' = "KeyError"
    /\ UNCHANGED <<f_pkg, f_prior, f_csv, f_ppargs, f_web, f_specs, f_uuid,
                   f_sort, f_sorted, textVars, readerVars, enumVars, cacheVars,
                   poolVars, purgeVars>>

\* sort.py run on cameras.csv once the command has ended
SortScript ==
    LET Sorts(r) ==
            /\ r.raised = ""
            /\ f_sort' = "done"
            /\ f_sorted' = r.data
    IN  /\ f_status \in {"written", "exit 1"}
        /\ f_sort = "none"
        /\ Sorts(sort_py(f_csv))
        /\ UNCHANGED <<f_pkg, f_prior, f_csv, f_ppargs, f_web, f_specs, f_status,
                       f_exc, f_uuid, textVars, readerVars, enumVars, cacheVars,
                       poolVars, purgeVars>>

\* sort.py raises: nothing is written
SortScriptRaises ==
    LET Raises(r) ==
            /\ r.raised # ""
            /\ f_sort' = r.raised
    IN  /\ f_status \in {"written", "exit 1"}
        /\ f_sort = "none"
        /\ Raises(sort_py(f_csv))
        /\ UNCHANGED <<f_pkg, f_prior, f_csv, f_ppargs, f_web, f_specs, f_status,
                       f_exc, f_uuid, f_sorted, textVars, readerVars, enumVars, cacheVars,
                       poolVars, purgeVars>>

\* __main__.fetch: "lens_info = list(nikon.enumerate_lenses(True))" names a
\* function nikon.py does not define: AttributeError, which reaches
\* "except Exception: _logger.exception("")"; the function then returns and
\* the process ends with status 0
MainFetchRaises ==
    /\ f_status = "listing"
    /\ f_exc' = "AttributeError"
    /\ f_status' = "exit 0"
    /\ UNCHANGED <<f_pkg, f_prior, f_csv, f_ppargs, f_web, f_specs, f_uuid,
                   f_sort, f_sorted, textVars, readerVars, enumVars, cacheVars,
                   poolVars, purgeVars>>

Next ==
    \/ ApplyFetcher
    \/ FetcherRaises
    \/ WriteDataset
    \/ NothingToSort
    \/ SortScript
    \/ SortScriptRaises
    \/ MainFetchRaises

Spec == Init /\ [][Next]_vars

-----------------------------------------------------------------------------
(* Claims about the fetch command and the sort script (checked under Spec)   *)

\* C1: when the reader fails on one item (every strategy fails, or a required
\* field is missing) that item alone is dropped: the run does not abort and
\* still writes the rows of the other items.  Stated of the run's end: the
\* command never exits with status 1 for an exception the reader raised.
C1_AsStated ==
    ~ (f_status = "exit 1" /\ f_exc = "CameraLensDatabaseException")

\* the rows of the prior dataset whose name equals nm ignoring case
PriorMatches(nm) ==
    {k \in 1..Len(f_prior.rows) : lower(f_prior.rows[k]["Name"]) = lower(nm)}

\* the record as the reader returned it is written with the identifier id
WrittenWith(spec, id) ==
    \E j \in 1..Len(f_csv.rows) : f_csv.rows[j] = ("id" :> id) @@ spec

Last(S) == CHOOSE k \in S : \A m \in S : m <= k

DistinctNames(S) ==
    \A k, m \in S : k # m => f_prior.rows[k]["Name"] # f_prior.rows[m]["Name"]

\* C2 as stated: a record whose name equals a prior name ignoring case is
\* written with exactly the identifier the prior dataset stores, unaltered;
\* any other record keeps its freshly generated identifier.
C2_AsStated ==
    f_status = "written" =>
        /\ Len(f_csv.rows) = Len(f_specs)
        /\ \A i \in 1..Len(f_specs) :
              IF PriorMatches(f_specs[i]["name"]) = {}
              THEN WrittenWith(f_specs[i], f_specs[i]["id"])
              ELSE \E k \in PriorMatches(f_specs[i]["name"]) :
                      WrittenWith(f_specs[i], f_prior.rows[k]["ID"])

\* C2 amended: a record whose name equals a prior name ignoring case is
\* written with the identifier of such a prior row folded to lower case (of
\* the last such row, when the prior names are distinct as written); any
\* other record keeps its freshly generated identifier.
C2_LowerCased ==
    f_status = "written" =>
        /\ Len(f_csv.rows) = Len(f_specs)
        /\ \A i \in 1..Len(f_specs) :
              IF PriorMatches(f_specs[i]["name"]) = {}
              THEN WrittenWith(f_specs[i], f_specs[i]["id"])
              ELSE /\ \E k \in PriorMatches(f_specs[i]["name"]) :
                         WrittenWith(f_specs[i], lower(f_prior.rows[k]["ID"]))
                   /\ DistinctNames(PriorMatches(f_specs[i]["name"])) =>
                         WrittenWith(f_specs[i],
                             lower(f_prior.rows[Last(PriorMatches(f_specs[i]["name"]))]["ID"]))

\* a dataset written where one record took over the identifier of a prior
\* row whose name differs in letter case and whose identifier has capitals,
\* and another record, with no prior name, kept its own
C2_Witness ==
    /\ f_status = "written"
    /\ \E i \in 1..Len(f_specs) : \E k \in PriorMatches(f_specs[i]["name"]) :
          /\ f_prior.rows[k]["Name"] # f_specs[i]["name"]
          /\ lower(f_prior.rows[k]["ID"]) # f_prior.rows[k]["ID"]
          /\ WrittenWith(f_specs[i], lower(f_prior.rows[k]["ID"]))
    /\ \E i \in 1..Len(f_specs) :
          /\ PriorMatches(f_specs[i]["name"]) = {}
          /\ WrittenWith(f_specs[i], f_specs[i]["id"])

\* the sort key of a row with the string keys folded to lower case
FoldedKey(row) ==
    <<lower(Chars(row["brand"])), lower(Chars(row["mount"])), lower(row["name"])>>

\* C3: the dataset written is ordered by (brand, mount, name) compared
\* ignoring case, and the sort is stable: rows whose keys are equal ignoring
\* case (two names differing only in letter case) stay in the order read.
C3_AsStated ==
    f_status = "written" =>
        \A i, j \in 1..Len(f_csv.rows) :
            i < j =>
                /\ ~ KeyLess(FoldedKey(f_csv.rows[j]), FoldedKey(f_csv.rows[i]))
                /\ FoldedKey(f_csv.rows[i]) = FoldedKey(f_csv.rows[j]) =>
                      \E a, b \in 1..Len(f_specs) :
                          /\ a < b
                          /\ f_specs[a]["name"] = f_csv.rows[i]["name"]
                          /\ f_specs[b]["name"] = f_csv.rows[j]["name"]

\* C4: the sort of the sort script applied to a dataset the fetch command has
\* just written leaves it as it is: the script ends well, what it writes
\* equals what it read, and its sort (by brand, mount and name ignoring
\* case) keeps the order of the rows.
C4_AsStated ==
    f_status = "written" =>
        /\ f_sort # "none" => (f_sort = "done" /\ f_sorted = f_csv)
        /\ sort_values(f_csv.rows, <<"brand", "mount", "name">>,
                       {"brand", "mount", "name"}) = f_csv.rows

-----------------------------------------------------------------------------
(* More input texts of the extractors (SpecExtract): quantities with units   *)
(* the code knows and units it does not, digit-or-dot runs that are not      *)
(* numbers, and areas in every notation of the pattern.                      *)

\* the most tokens of a text of quantities
MaxWords == 2

\* the most white space at one place of an area
MaxSpaces == 1

QuantityTokens ==
    {Tok("qty", n, u, st) :
        n \in {<<"5", "0">>, <<"1", ".", "2", ".", "3">>, <<".">>},
        u \in {<<"m", "m">>, <<"m">>, <<"c", "m">>, <<"m", "i", "n">>},
        st \in 0..1}
    \cup {Tok("num", n, << >>, 0) : n \in {<<"5", "0">>, <<"1", ".", "2", ".", "3">>, <<".">>}}
    \cup {Tok("f", n, << >>, 0) : n \in {<<"3", ".", "5">>, <<".">>}}
    \cup {Tok("sep", <<" ">>, << >>, 0), Tok("sep", <<",">>, << >>, 0)}

AreaTokens ==
    {Tok("area", w, h, [h |-> nh, s1 |-> s1, sign |-> sign, s2 |-> s2, v |-> nv, s3 |-> s3]) :
        w \in {<<"2", "3", ".", "7">>, <<"3", "6">>},
        h \in {<<"1", "5", ".", "6">>, <<"2", "4">>},
        nh \in BOOLEAN, nv \in BOOLEAN, sign \in {"*", "x"},
        s1 \in 0..MaxSpaces, s2 \in 0..MaxSpaces, s3 \in 0..MaxSpaces}

InitExtract ==
    /\ tokens \in UNION {[1..n -> QuantityTokens] : n \in 0..MaxWords}
                     \cup {<<t>> : t \in AreaTokens}
    /\ text = Render(tokens)
    /\ op = "none"
    /\ out = NoResult
    /\ ReaderIdle
    /\ FetchIdle
    /\ EnumIdle
    /\ CacheIdle
    /\ PoolIdle
    /\ PurgeIdle

Call_enum_square_millimeters ==
    /\ op = "none"
    /\ op' = "enum_square_millimeters"
    /\ out' = enum_square_millimeters(text)
    /\ UNCHANGED <<tokens, text, readerVars, fetchVars, enumVars, cacheVars,
               poolVars, purgeVars>>

NextExtract ==
    \/ Call_enum_millimeter_values
    \/ Call_enum_f_numbers
    \/ Call_enum_square_millimeters

SpecExtract == InitExtract /\ [][NextExtract]_vars

-----------------------------------------------------------------------------
(* Claims about the extractors on these texts (checked under SpecExtract)    *)

\* C11: enum_f_numbers never fails: whatever the text (a lone "." or "1.2.3"
\* included), consuming the whole result raises no exception, and the result
\* is empty when the text holds no digit and no dot.
C11_AsStated ==
    op = "enum_f_numbers" =>
        /\ ~ out.raised
        /\ (\A i \in 1..Len(text) : ~ IsNumChar(text[i])) => out.vals = << >>

\* C12: for every text of the form W, optional "(H)", optional white space,
\* a multiplication sign or "x", optional white space, H, optional "(V)",
\* optional white space, "mm", enum_square_millimeters returns exactly one
\* pair, (W, H).
C12_OnePair ==
    (op = "enum_square_millimeters" /\ Kinds(tokens) = {"area"}) =>
        out = Result(FALSE, <<<<ToFloat(tokens[1].a), ToFloat(tokens[1].b)>>>>)

\* "23.7(H)*15.6(V)mm" read as [(23.7, 15.6)]
C12_Witness ==
    /\ op = "enum_square_millimeters"
    /\ text = <<"2", "3", ".", "7", "(", "H", ")", "*", "1", "5", ".", "6",
                "(", "V", ")", "m", "m">>
    /\ out = Result(FALSE, <<<<Dec(237, 1), Dec(156, 1)>>>>)

\* the values of the quantities written in mm or m, in order: N for "N mm",
\* N * 1000 for "N m", nothing for any other token
RECURSIVE ValuesWritten(_)
ValuesWritten(ts) ==
    IF ts = << >> THEN << >>
    ELSE (IF ts[1].kind = "qty" /\ ts[1].b = <<"m", "m">> THEN <<ToFloat(ts[1].a)>>
          ELSE IF ts[1].kind = "qty" /\ ts[1].b = <<"m">>
          THEN <<Times(ToFloat(ts[1].a), 1000)>>
          ELSE << >>) \o ValuesWritten(Tail(ts))

\* C13: enum_millimeter_values returns, in order of appearance, N for every
\* "N mm" token and N * 1000 for every "N m" token and nothing else: a number
\* followed by any other unit or word is ignored and never raises.  (Of texts
\* of quantities whose tokens stand apart and whose quantities in mm or m are
\* numbers.)
C13_AsStated ==
    (/\ op = "enum_millimeter_values"
     /\ "area" \notin Kinds(tokens)
     /\ Separated(tokens)
     /\ \A i \in 1..Len(tokens) :
           (tokens[i].kind = "qty" /\ tokens[i].b \in {<<"m", "m">>, <<"m">>})
               => FloatOk(tokens[i].a))
        => out = Result(FALSE, ValuesWritten(tokens))


-----------------------------------------------------------------------------
(* The enumerator: nikon.enum_equipments, sony.enum_cameras and the chain    *)
(* the fetch command makes of them.  Titles are texts of characters, the     *)
(* kana of "discontinued" written as the symbol "old", the full-width "<NEW>"*)
(* as "<NEW>" and the five kanji of the S3 reissue as "limited".  A URL is   *)
(* a text whose words (scheme, host, path segments) are one symbol each.     *)

_models_to_ignore ==
    {<<"A", "F", "-", "S", " ", "T", "E", "L", "E", "C", "O", "N", "V", "E", "R", "T", "E", "R", " ", "T", "C", "-", "1", "4", "E", " ", "I", "I", "I">>,
     <<"A", "F", "-", "S", " ", "T", "E", "L", "E", "C", "O", "N", "V", "E", "R", "T", "E", "R", " ", "T", "C", "-", "2", "0", "E", " ", "I", "I", "I">>,
     <<"A", "I", " ", "A", "F", "-", "I", " ", "T", "e", "l", "e", "c", "o", "n", "v", "e", "r", "t", "e", "r", " ", "T", "C", "-", "1", "4", "E">>,
     <<"A", "I", " ", "A", "F", "-", "I", " ", "T", "e", "l", "e", "c", "o", "n", "v", "e", "r", "t", "e", "r", " ", "T", "C", "-", "2", "0", "E">>,
     <<"A", "I", " ", "A", "F", "-", "S", " ", "T", "E", "L", "E", "C", "O", "N", "V", "E", "R", "T", "E", "R", " ", "T", "C", "-", "1", "4", "E", " ", "I", "I">>,
     <<"A", "I", " ", "A", "F", "-", "S", " ", "T", "E", "L", "E", "C", "O", "N", "V", "E", "R", "T", "E", "R", " ", "T", "C", "-", "1", "7", "E", " ", "I", "I">>,
     <<"A", "I", " ", "A", "F", "-", "S", " ", "T", "E", "L", "E", "C", "O", "N", "V", "E", "R", "T", "E", "R", " ", "T", "C", "-", "2", "0", "E", " ", "I", "I">>,
     <<"A", "I", " ", "T", "C", "-", "1", "4", "A", "S">>,
     <<"A", "I", " ", "T", "C", "-", "1", "4", "B", "S">>,
     <<"A", "I", " ", "T", "C", "-", "2", "0", "1", "S">>,
     <<"A", "I", " ", "T", "C", "-", "3", "0", "1", "S">>,
     <<"Z", " ", "T", "E", "L", "E", "C", "O", "N", "V", "E", "R", "T", "E", "R", " ", "T", "C", "-", "1", ".", "4", "x">>,
     <<"Z", " ", "T", "E", "L", "E", "C", "O", "N", "V", "E", "R", "T", "E", "R", " ", "T", "C", "-", "2", ".", "0", "x">>,
     <<"E", "3", "/", "E", "3", "S">>,
     <<"F", "1", "0", "0">>,
     <<"F", "5">>,
     <<"F", "6">>,
     <<"F", "8", "0", "D", "/", "F", "8", "0", "S">>,
     <<"F", "M", "1", "0">>,
     <<"F", "M", "3", "A">>,
     <<"L", "i", "t", "e", " ", "T", "o", "u", "c", "h", " ", "Z", "o", "o", "m", " ", "1", "0", "0", "W", " ", "Q", "D">>,
     <<"L", "i", "t", "e", " ", "T", "o", "u", "c", "h", " ", "Z", "o", "o", "m", " ", "1", "2", "0", "E", "D", " ", "Q", "D">>,
     <<"L", "i", "t", "e", " ", "T", "o", "u", "c", "h", " ", "Z", "o", "o", "m", " ", "1", "3", "0", "E", "D", " ", "Q", "D">>,
     <<"L", "i", "t", "e", " ", "T", "o", "u", "c", "h", " ", "Z", "o", "o", "m", " ", "1", "4", "0", "E", "D", " ", "Q", "D">>,
     <<"L", "i", "t", "e", " ", "T", "o", "u", "c", "h", " ", "Z", "o", "o", "m", " ", "1", "5", "0", "E", "D", " ", "Q", "D">>,
     <<"L", "i", "t", "e", " ", "T", "o", "u", "c", "h", " ", "Z", "o", "o", "m", " ", "7", "0", "W", "s", " ", "Q", "D">>,
     <<"N", "I", "K", "O", "N", "O", "S", "-", "V">>,
     <<"N", "u", "v", "i", "s", " ", "S">>,
     <<"N", "u", "v", "i", "s", " ", "S", "2", "0", "0", "0">>,
     <<"P", "R", "O", "N", "E", "A", " ", "S">>,
     <<"S", "3", " ", "(", "limited", ")">>,
     <<"U">>,
     <<"U", "2">>,
     <<"U", "S">>}

\* s[i-1:j], as Python slices: cut at the end of s
Clip(s, i, j) ==
    IF i > Len(s) \/ j < i THEN << >>
    ELSE SubSeq(s, i, IF j > Len(s) THEN Len(s) ELSE j)

\* re.sub(r"\s*(old|<NEW>)$", "", name)
SubSuffix(name) ==
    IF name # << >> /\ name[Len(name)] \in {"old", "<NEW>"}
    THEN LET RECURSIVE Cut(_)
             Cut(s) == IF s # << >> /\ IsSpace(s[Len(s)])
                       THEN Cut(SubSeq(s, 1, Len(s) - 1)) ELSE s
         IN  Cut(SubSeq(name, 1, Len(name) - 1))
    ELSE name

RECURSIVE SubNikkor(_, _, _)
\* re.sub(r"NIKKOR", "Nikkor", name, re.IGNORECASE): the fourth argument is
\* count, so the match is case-sensitive and at most re.IGNORECASE = 2
\* occurrences are replaced
SubNikkor(s, i, count) ==
    IF i > Len(s) THEN << >>
    ELSE IF count > 0 /\ Clip(s, i, i + 5) = <<"N", "I", "K", "K", "O", "R">>
         THEN <<"N", "i", "k", "k", "o", "r">> \o SubNikkor(s, i + 6, count - 1)
         ELSE <<s[i]>> \o SubNikkor(s, i + 1, count)

RECURSIVE SubOpenParen(_, _)
\* re.sub(r"(?<=[^\s])\(", " (", name)
SubOpenParen(s, i) ==
    IF i > Len(s) THEN << >>
    ELSE (IF s[i] = "(" /\ i > 1 /\ ~ IsSpace(s[i - 1]) THEN <<" ", "(">> ELSE <<s[i]>>)
         \o SubOpenParen(s, i + 1)

_normalize_name(name) ==
    SubOpenParen(SubNikkor(SubSuffix(_to_half_width(name)), 1, 2), 1)

\* urlparse(url): the hostname (<< >> for None) and the path
urlparse(url) ==
    LET scheme == Len(url) >= 2 /\ url[2] = ":" /\ url[1] \notin {"/", "?", "#"}
        rest == IF scheme THEN SubSeq(url, 3, Len(url)) ELSE url
        netloc == Len(rest) >= 2 /\ rest[1] = "/" /\ rest[2] = "/"
        host == IF netloc /\ Len(rest) >= 3 /\ rest[3] \notin {"/", "?", "#"}
                THEN <<rest[3]>> ELSE << >>
        after == IF netloc THEN SubSeq(rest, 3 + Len(host), Len(rest)) ELSE rest
        stops == {i \in 1..Len(after) : after[i] \in {"?", "#"}}
        end == IF stops = {} THEN Len(after)
               ELSE (CHOOSE i \in stops : \A j \in stops : i <= j) - 1
    IN  [hostname |-> host, path |-> SubSeq(after, 1, end)]

\* urljoin(base, path) for a path without "." or ".." segments: the base
\* itself for the empty path, the path under the base's server when it
\* starts with "/", and the path in the base's directory otherwise
urljoin_path(base, path) ==
    LET slashes == {i \in 1..Len(base) : base[i] = "/"}
        last == CHOOSE i \in slashes : \A j \in slashes : j <= i
    IN  IF path = << >> THEN base
        ELSE IF path[1] = "/" THEN SubSeq(base, 1, 5) \o path
        ELSE SubSeq(base, 1, last) \o path

NikonSite == <<"https", ":", "/", "/", "www.nikon-image.com">>

SonySite == <<"https", ":", "/", "/", "www.sony.jp">>

\* base_uri of each EquipmentType
base_uri(target) ==
    CASE target = "F_LENS_OLD" ->
             NikonSite \o <<"/", "products", "/", "nikkor", "/", "discontinue_fmount", "/">>
      [] target = "F_LENS" ->
             NikonSite \o <<"/", "products", "/", "nikkor", "/", "fmount", "/", "index.html">>
      [] target = "Z_LENS" ->
             NikonSite \o <<"/", "products", "/", "nikkor", "/", "zmount", "/", "index.html">>
      [] target = "SLR" -> NikonSite \o <<"/", "products", "/", "slr", "/">>
      [] target = "SLR_OLD" ->
             NikonSite \o <<"/", "products", "/", "slr", "/", "discontinue_lineup", "/">>
      [] target = "NEW_CAMERA" -> SonySite \o <<"/", "ichigan", "/", "lineup", "/">>

\* fetcher of each EquipmentType
fetcher(target) ==
    CASE target \in {"F_LENS_OLD", "F_LENS", "Z_LENS"} -> "read_lens"
      [] target \in {"SLR", "SLR_OLD"} -> "read_camera"
      [] target = "NEW_CAMERA" -> "fetch_camera"

Anchor(title, href) == [title |-> title, href |-> href]

\* one turn of the loop over the anchors: what becomes of the anchor
Visit_keeps_ignored(target, anchor) ==
    LET name == IF target = "NEW_CAMERA" THEN Strip(anchor.title)
                ELSE _normalize_name(anchor.title)
        raw_dest == anchor.href
        pr == urlparse(raw_dest)
        abs_dest == urljoin_path(base_uri(target), pr.path)
    IN  IF Clip(raw_dest, 1, 2) = <<"javascript", ":">>
        THEN [kind |-> "javascript", item |-> << >>]
        ELSE IF pr.hostname # << >> /\ pr.hostname # base_uri(target)
        THEN [kind |-> "warned", item |-> << >>]
        ELSE [kind |-> "yield", item |-> <<name, abs_dest, fetcher(target)>>]

Visit(target, anchor) ==
    LET name == IF target = "NEW_CAMERA" THEN Strip(anchor.title)
                ELSE _normalize_name(anchor.title)
        raw_dest == anchor.href
        pr == urlparse(raw_dest)
        abs_dest == urljoin_path(base_uri(target), pr.path)
    IN  IF target # "NEW_CAMERA" /\ name \in _models_to_ignore
        THEN [kind |-> "ignored", item |-> << >>]
        ELSE IF Clip(raw_dest, 1, 2) = <<"javascript", ":">>
        THEN [kind |-> "javascript", item |-> << >>]
        ELSE IF pr.hostname # << >> /\ pr.hostname # base_uri(target)
        THEN [kind |-> "warned", item |-> << >>]
        ELSE [kind |-> "yield", item |-> <<name, abs_dest, fetcher(target)>>]

\* the parameters of nikon.read_lens and of nikon.read_camera
ReaderParams == <<"name", "uri">>

\* _read_nikon_lens(args), _read_nikon_camera(args): the call reader(*args)
\* binds the elements of args to the reader's parameters
StarCall(args) == IF Len(args) = Len(ReaderParams) THEN "called" ELSE "TypeError"

\* the most anchors the listing pages of a chain hold together
MaxAnchors == 2

\* the titles the listing pages give
Titles(target) ==
    IF target = "NEW_CAMERA" THEN {<<"a", "7">>, <<" ", "a", "9", " ">>}
    ELSE {<<"D", "6">>, <<"F", "6">>, <<"F", "6", " ", "old">>,
          <<"S", "3", "{", "limited", "}">>, <<"N", "I", "K", "K", "O", "R", " ", "Z">>}

\* the hrefs the listing pages give: a relative path, a path from the root,
\* an absolute URL on the listing page's server (with a query), one naming
\* the server only, an absolute URL on another server, a script
Hrefs(target) ==
    {<<"item", "/">>,
     <<"/", "products", "/", "item", "/">>,
     SubSeq(base_uri(target), 1, 5) \o <<"/", "products", "/", "item", "/", "?", "q">>,
     <<"/", "/">> \o SubSeq(base_uri(target), 5, 5) \o <<"/", "item", "/">>,
     <<"https", ":", "/", "/", "shop.example.com", "/", "item", "/">>,
     <<"javascript", ":", "void(0)">>}

\* the listing pages of a category: up to most anchors
Listings(target, most) ==
    UNION {[1..n -> {Anchor(t, h) : t \in Titles(target), h \in Hrefs(target)}] :
           n \in 0..most}

\* the chains: the categories of "fetch camera", of "fetch lens", and the
\* listing of sony.enum_cameras
Chains ==
    {<<"SLR", "SLR_OLD">>, <<"F_LENS_OLD", "F_LENS", "Z_LENS">>, <<"NEW_CAMERA">>}

InitEnum ==
    /\ TextIdle
    /\ ReaderIdle
    /\ FetchIdle
    /\ CacheIdle
    /\ PoolIdle
    /\ PurgeIdle
    /\ en_chain \in Chains
    /\ en_k = 0
    /\ en_anchors = << >>
    /\ en_i = 0
    /\ en_out = << >>
    /\ en_warn = << >>
    /\ en_status = "start"
    /\ en_exc = ""

Target == en_chain[en_k]

AtAnchor == en_status = "walking" /\ en_i < Len(en_anchors)

AtEnd == en_status \in {"start", "walking"} /\ en_i = Len(en_anchors)

Visited == Visit(Target, en_anchors[en_i + 1])

\* the next generator of the chain starts: fetch(base_uri), soup.select
OpenListing ==
    /\ AtEnd
    /\ en_k < Len(en_chain)
    /\ en_k' = en_k + 1
    /\ \E page \in Listings(en_chain[en_k + 1], MaxAnchors - Len(en_anchors)) :
          en_anchors' = en_anchors \o page
    /\ en_status' = "walking"
    /\ UNCHANGED <<en_chain, en_i, en_out, en_warn, en_exc, textVars, readerVars,
                   fetchVars, cacheVars, poolVars, purgeVars>>

\* "if name in _models_to_ignore: continue" and
\* "if raw_dest.startswith("javascript:"): continue"
Continue ==
    /\ AtAnchor
    /\ Visited.kind \in {"ignored", "javascript"}
    /\ en_i' = en_i + 1
    /\ UNCHANGED <<en_chain, en_k, en_anchors, en_out, en_warn, en_status, en_exc,
                   textVars, readerVars, fetchVars, cacheVars, poolVars, purgeVars>>

\* the warning "skipped an item because it's not on the same server"
SkipWithWarning ==
    /\ AtAnchor
    /\ Visited.kind = "warned"
    /\ en_i' = en_i + 1
    /\ en_warn' = Append(en_warn, en_anchors[en_i + 1].href)
    /\ UNCHANGED <<en_chain, en_k, en_anchors, en_out, en_status, en_exc,
                   textVars, readerVars, fetchVars, cacheVars, poolVars, purgeVars>>

\* yield name, abs_dest, fetcher
Yield ==
    /\ AtAnchor
    /\ Visited.kind = "yield"
    /\ en_i' = en_i + 1
    /\ en_out' = Append(en_out, Visited.item)
    /\ UNCHANGED <<en_chain, en_k, en_anchors, en_warn, en_status, en_exc,
                   textVars, readerVars, fetchVars, cacheVars, poolVars, purgeVars>>

\* the last generator of the chain is exhausted: ppargs is complete
ChainDone ==
    /\ AtEnd
    /\ en_k = Len(en_chain)
    /\ en_status' = "listed"
    /\ UNCHANGED <<en_chain, en_k, en_anchors, en_i, en_out, en_warn, en_exc,
                   textVars, readerVars, fetchVars, cacheVars, poolVars, purgeVars>>

\* the fetch command applies its detail fetcher to the elements of ppargs,
\* in order, until one call raises
ApplyDetailFetcher ==
    LET calls == [j \in 1..Len(en_out) |-> StarCall(en_out[j])]
        failed == {j \in 1..Len(en_out) : calls[j] # "called"}
    IN  /\ en_status = "listed"
        /\ en_chain[1] # "NEW_CAMERA"
        /\ en_status' = IF failed = {} THEN "called" ELSE "exit 1"
        /\ en_exc' = IF failed = {} THEN ""
                     ELSE calls[CHOOSE j \in failed : \A k \in failed : j <= k]
        /\ UNCHANGED <<en_chain, en_k, en_anchors, en_i, en_out, en_warn,
                       textVars, readerVars, fetchVars, cacheVars, poolVars, purgeVars>>

NextEnum ==
    \/ OpenListing
    \/ Continue
    \/ SkipWithWarning
    \/ Yield
    \/ ChainDone
    \/ ApplyDetailFetcher

SpecEnum == InitEnum /\ [][NextEnum]_vars


-----------------------------------------------------------------------------
(* Claims about the enumerator (checked under SpecEnum)                      *)

\* C14: no item whose normalized name is on the denylist appears in the
\* enumerator's output, for every Nikon category and every chain of them.
C14_NoIgnoredName ==
    en_chain[1] # "NEW_CAMERA" =>
        \A j \in 1..Len(en_out) : en_out[j][1] \notin _models_to_ignore

\* a second category is being walked, an anchor titled "F6 (discontinued)"
\* with a relative href has been passed over, and another item was yielded
C14_Witness ==
    /\ en_k = 2
    /\ en_i = 2
    /\ en_anchors[1] = Anchor(<<"F", "6", " ", "old">>, <<"item", "/">>)
    /\ Len(en_out) = 1
    /\ en_out[1][1] = <<"D", "6">>

\* the host an href resolves to on the listing page of the category
ResolvedHost(target, href) ==
    IF urlparse(href).hostname = << >> THEN urlparse(base_uri(target)).hostname
    ELSE urlparse(href).hostname

\* C15: an entry (not passed over for its name or for a script href) is
\* skipped with the warning exactly when its href resolves to a host other
\* than the listing page's: an absolute href on the page's own host is
\* yielded and a relative href is yielded.
C15_AsStated ==
    [][(AtAnchor /\ en_i' = en_i + 1 /\ Visited.kind \notin {"ignored", "javascript"})
          => ((en_warn' # en_warn)
                 <=> (ResolvedHost(Target, en_anchors[en_i + 1].href)
                         # urlparse(base_uri(Target)).hostname))]_vars

\* C16: every element yielded is a (name, absolute URI) pair, and the detail
\* fetcher of the fetch command accepts each element as produced: no call
\* is rejected for the shape of its argument.
C16_AsStated ==
    /\ \A j \in 1..Len(en_out) : Len(en_out[j]) = 2
    /\ en_exc # "TypeError"


-----------------------------------------------------------------------------
(* utils.fetch and its cache directory, called by the worker processes of    *)
(* parallel_apply.  The clock counts hours.  A text is a sequence of         *)
(* symbols: a line end is "\n" or the pair "\r", "\n", anything else is a   *)
(* run of characters written as one symbol.  A file holds the symbols        *)
(* written to it, "NUL" where a write left a hole.                           *)

\* CACHE_TIMEOUT = 8 * 3600 seconds, in hours
CACHE_TIMEOUT == 8

\* the clock advances by this many hours at a time
TickHours == 4

\* the clock stops here
MaxClock == 8

\* the most versions of its pages the site serves, one after the other
MaxVersion == 2

URIs == {"u1", "u2"}

\* resp.text of requests.get(uri) when the site serves version v: the odd
\* versions end their lines with "\n", the even ones with "\r\n"
PageText(uri, v) ==
    IF v % 2 = 1 THEN <<uri, "\n", <<"v1", "v2", "v3">>[v]>>
    ELSE <<uri, "\r", "\n", <<"v1", "v2", "v3">>[v]>>

File(mtime, data) == [exists |-> TRUE, mtime |-> mtime, data |-> data]

\* cache_file_path.is_file() is false
NoFile == [exists |-> FALSE, mtime |-> 0, data |-> << >>]

\* nothing returned yet
NoReturn == [uri |-> "", text |-> << >>, live |-> FALSE]

\* the file after a write of chunk at offset off (the count of symbols
\* before it): what the chunk covers is replaced, a gap is left as a hole
WriteAt(data, off, chunk) ==
    LET end == off + Len(chunk)
        n == IF Len(data) > end THEN Len(data) ELSE end
    IN  [i \in 1..n |->
            IF i > off /\ i <= end THEN chunk[i - off]
            ELSE IF i <= Len(data) THEN data[i] ELSE "NUL"]

RECURSIVE read_text(_)
\* Path.read_text: the file is opened with newline=None, so "\r\n" and
\* "\r" are read as "\n"
read_text(data) ==
    IF data = << >> THEN << >>
    ELSE IF data[1] = "\r"
         THEN <<"\n">> \o read_text(IF Len(data) >= 2 /\ data[2] = "\n"
                                     THEN SubSeq(data, 3, Len(data)) ELSE Tail(data))
         ELSE <<data[1]>> \o read_text(Tail(data))

\* Path.write_text on a POSIX system: "\n" is written as os.linesep = "\n"
write_text(txt) == txt

\* the part of a text a first, short write puts into the file
FirstPart(txt) == SubSeq(txt, 1, Len(txt) \div 2)

\* is_file() and utcnow() < cached_time + timedelta(seconds=CACHE_TIMEOUT)
Fresh(uri) == disk[uri].exists /\ now < disk[uri].mtime + CACHE_TIMEOUT

InitCache ==
    /\ TextIdle
    /\ ReaderIdle
    /\ FetchIdle
    /\ EnumIdle
    /\ PoolIdle
    /\ PurgeIdle
    /\ now = 0
    /\ disk = [u \in URIs |-> NoFile]
    /\ site = 1
    /\ \E W \in {{"w1"}, {"w1", "w2"}} :
          /\ pc = [w \in W |-> "idle"]
          /\ req = [w \in W |-> ""]
          /\ resp = [w \in W |-> << >>]
          /\ ret = [w \in W |-> NoReturn]

\* a worker is given an item whose page is at uri: fetch(uri) begins
Call(w, uri) ==
    /\ pc[w] = "idle"
    /\ pc' = [pc EXCEPT ![w] = "check"]
    /\ req' = [req EXCEPT ![w] = uri]
    /\ UNCHANGED <<now, disk, site, resp, ret, textVars, readerVars, fetchVars, enumVars,
               poolVars, purgeVars>>

\* the cache file is there and not so old
CheckFresh(w) ==
    /\ pc[w] = "check"
    /\ Fresh(req[w])
    /\ pc' = [pc EXCEPT ![w] = "read"]
    /\ UNCHANGED <<now, disk, site, req, resp, ret, textVars, readerVars,
                   fetchVars, enumVars, poolVars, purgeVars>>

\* there is no cache file, or it is old
CheckStale(w) ==
    /\ pc[w] = "check"
    /\ ~ Fresh(req[w])
    /\ pc' = [pc EXCEPT ![w] = "get"]
    /\ UNCHANGED <<now, disk, site, req, resp, ret, textVars, readerVars,
                   fetchVars, enumVars, poolVars, purgeVars>>

\* return cache_file_path.read_text("utf-8", errors="strict")
ReadCache(w) ==
    /\ pc[w] = "read"
    /\ pc' = [pc EXCEPT ![w] = "idle"]
    /\ ret' = [ret EXCEPT ![w] = [uri |-> req[w],
                                  text |-> read_text(disk[req[w]].data),
                                  live |-> FALSE]]
    /\ req' = [req EXCEPT ![w] = ""]
    /\ UNCHANGED <<now, disk, site, resp, textVars, readerVars,
                   fetchVars, enumVars, poolVars, purgeVars>>

\* resp = requests.get(uri)
Get(w) ==
    /\ pc[w] = "get"
    /\ pc' = [pc EXCEPT ![w] = "open"]
    /\ resp' = [resp EXCEPT ![w] = PageText(req[w], site)]
    /\ UNCHANGED <<now, disk, site, req, ret, textVars, readerVars,
                   fetchVars, enumVars, poolVars, purgeVars>>

\* write_text opens the file with mode "w": it is created or truncated
OpenForWrite(w) ==
    /\ pc[w] = "open"
    /\ pc' = [pc EXCEPT ![w] = "write"]
    /\ disk' = [disk EXCEPT ![req[w]] = File(now, << >>)]
    /\ UNCHANGED <<now, site, req, resp, ret, textVars, readerVars,
                   fetchVars, enumVars, poolVars, purgeVars>>

\* write_text writes: the whole text at once, or a first part of it
Write(w) ==
    /\ pc[w] = "write"
    /\ \E whole \in BOOLEAN :
          /\ pc' = [pc EXCEPT ![w] = IF whole THEN "return" ELSE "write_rest"]
          /\ disk' = [disk EXCEPT ![req[w]] =
                         File(now, WriteAt(@.data, 0,
                                           IF whole THEN write_text(resp[w])
                                           ELSE FirstPart(write_text(resp[w]))))]
    /\ UNCHANGED <<now, site, req, resp, ret, textVars, readerVars,
                   fetchVars, enumVars, poolVars, purgeVars>>

\* write_text writes the rest of the text where its first part ended
WriteRest(w) ==
    LET txt == write_text(resp[w])
        off == Len(FirstPart(txt))
    IN  /\ pc[w] = "write_rest"
        /\ pc' = [pc EXCEPT ![w] = "return"]
        /\ disk' = [disk EXCEPT ![req[w]] =
                       File(now, WriteAt(@.data, off, SubSeq(txt, off + 1, Len(txt))))]
        /\ UNCHANGED <<now, site, req, resp, ret, textVars, readerVars,
                       fetchVars, enumVars, poolVars, purgeVars>>

\* return resp.text
Return(w) ==
    /\ pc[w] = "return"
    /\ pc' = [pc EXCEPT ![w] = "idle"]
    /\ ret' = [ret EXCEPT ![w] = [uri |-> req[w], text |-> resp[w], live |-> TRUE]]
    /\ req' = [req EXCEPT ![w] = ""]
    /\ resp' = [resp EXCEPT ![w] = << >>]
    /\ UNCHANGED <<now, disk, site, textVars, readerVars,
                   fetchVars, enumVars, poolVars, purgeVars>>

\* time passes
Tick ==
    /\ now + TickHours <= MaxClock
    /\ now' = now + TickHours
    /\ UNCHANGED <<disk, site, pc, req, resp, ret, textVars, readerVars,
                   fetchVars, enumVars, poolVars, purgeVars>>

\* the site publishes a new version of its pages
SiteChanges ==
    /\ site < MaxVersion
    /\ site' = site + 1
    /\ UNCHANGED <<now, disk, pc, req, resp, ret, textVars, readerVars,
                   fetchVars, enumVars, poolVars, purgeVars>>

NextCache ==
    \/ \E w \in DOMAIN pc : \E uri \in URIs : Call(w, uri)
    \/ \E w \in DOMAIN pc : CheckFresh(w)
    \/ \E w \in DOMAIN pc : CheckStale(w)
    \/ \E w \in DOMAIN pc : ReadCache(w)
    \/ \E w \in DOMAIN pc : Get(w)
    \/ \E w \in DOMAIN pc : OpenForWrite(w)
    \/ \E w \in DOMAIN pc : Write(w)
    \/ \E w \in DOMAIN pc : WriteRest(w)
    \/ \E w \in DOMAIN pc : Return(w)
    \/ Tick
    \/ SiteChanges

SpecCache == InitCache /\ [][NextCache]_vars


-----------------------------------------------------------------------------
(* Claims about fetch and its cache (checked under SpecCache)                *)

\* C17: where fetch runs in one worker only, fetch(uri) returns the cached
\* copy, with no live retrieval, exactly when a cache entry of the URI exists
\* and is younger than eight hours; otherwise it retrieves the page and
\* refreshes the entry; and a fetch served from the cache after a fetch of
\* the same URI returns the same text as that fetch did.
C17_AsStated ==
    [][\A w \in DOMAIN pc :
          DOMAIN pc = {"w1"} =>
             /\ (pc[w] = "check" /\ pc'[w] # "check") =>
                   /\ pc'[w] = "read"
                         <=> (disk[req[w]].exists /\ now - disk[req[w]].mtime < 8)
                   /\ pc'[w] # "read" => pc'[w] = "get"
             /\ (pc[w] = "return" /\ pc'[w] = "idle") =>
                   (ret'[w].live /\ disk[req[w]].exists /\ disk[req[w]].data = resp[w])
             /\ (pc[w] = "read" /\ pc'[w] = "idle" /\ ret[w].uri = req[w]) =>
                   (~ ret'[w].live /\ ret'[w].text = ret[w].text)]_vars

\* C18: in every interleaving of the workers, each fetch(uri) returns a
\* complete page text retrieved for that URI (as retrieved, or with its line
\* ends as read_text gives them), never an empty, partial or foreign one.
C18_AsStated ==
    \A w \in DOMAIN pc :
        ret[w] # NoReturn =>
            \E v \in 1..MaxVersion :
                ret[w].text \in {PageText(ret[w].uri, v), read_text(PageText(ret[w].uri, v))}


-----------------------------------------------------------------------------
(* The records the readers accept (SpecRecords): one call of a reader on a   *)
(* page of one spec table whose values are sound, or are not.                *)

\* the rows of a lens table: the focal length, the focus distance and the
\* texts of the smallest and of the largest aperture as the page gives them
LensRowsOf(focal_text, distance_text, min_ap_text, max_ap_text) ==
    <<Row2("th", <<"keishiki">>, Chars(" nikon Z mount ")),
      Row2("th", <<"shoten_kyori">>, focal_text),
      Row2("th", <<"saitan_satsuei_kyori">>, distance_text),
      Row2("th", <<"saisho_shibori">>, min_ap_text),
      Row2("th", <<"saidai_shibori">>, max_ap_text)>>

\* lens tables: sound, the ends of the range the other way round, a zero
\* distance, the two apertures in each other's row, and tables that leave the
\* focal length and the largest aperture, or the smallest aperture, to the name
RecordLensTables ==
    {Table({"table.table-A01-group"}, rows) :
        rows \in {LensRowsOf(Chars("50mm"), Chars("0.45m"), Chars("f/16"), Chars("f/1.8")),
                  LensRows("name_only", "th"), LensRows("no_min_ap", "th"),
                  LensRowsOf(<<"7", "0", "-", "1", "8", "m", "m">>, Chars("0.45m"),
                             Chars("f/16"), Chars("f/1.8")),
                  LensRowsOf(Chars("50mm"), <<"0", "m">>, Chars("f/16"), Chars("f/1.8")),
                  LensRowsOf(Chars("50mm"), Chars("0.45m"), Chars("f/1.8"), Chars("f/16"))}}

\* the text of the sensor row: width * height mm, the word for the sensor
\* and, where label is given, "<label> format"
SensorText(w, h, label) ==
    w \o <<"*">> \o h \o <<"m", "m", " ", "cmos">>
      \o (IF label = << >> THEN << >> ELSE <<" ">> \o label \o <<" ", "format">>)

SensorTexts ==
    {SensorText(wh[1], wh[2], label) :
        wh \in {<<<<"3", "5", ".", "9">>, <<"2", "3", ".", "9">>>>,
                <<<<"2", "3", ".", "5">>, <<"1", "5", ".", "6">>>>,
                <<<<"1", "3", ".", "2">>, <<"8", ".", "8">>>>},
        label \in {<< >>, <<"F", "X">>, <<"D", "X">>}}

\* the table of the spec.html of a camera, as each reader selects it
RecordCameraTables(reader) ==
    {Table({IF reader = "fetch_camera" THEN ".s5-specTable > table" ELSE "div#spec ~ table"},
           CameraRows("full", "th",
                      IF reader = "fetch_camera" THEN Chars("sony Emount")
                      ELSE Chars("nikonFmount"),
                      txt)) : txt \in SensorTexts}

RecordItems ==
    {Item("read_lens", nm, Uri(d, "a", "index.html")) :
        nm \in {Chars("Nikkor Z 50mm f/1.8 S"), Chars("AI Micro-Nikkor 105mm f/2.8S")},
        d \in {"fmount", "zmount"}}
    \cup {Item("read_camera", Chars("D850"), Uri("slr", "a", "index.html")),
          Item("camera_lens_database.read_camera", Chars("D850"),
               Uri("slr", "a", "index.html")),
          Item("fetch_camera", Chars("ILCE-7"), Uri("ichigan", "a", "index.html"))}

\* what the site serves to the reader of an item: a page of one table, a
\* page without a table, or nothing
RecordWebs(item) ==
    LET spec == urljoin(item.uri, "spec.html")
        Served(tables) == {Page(<<t>>) : t \in tables} \cup {Page(<< >>), DOWN}
    IN  IF item.reader = "read_lens"
        THEN {(item.uri :> p) @@ (spec :> Page(<< >>)) : p \in Served(RecordLensTables)}
        ELSE {(spec :> p) : p \in Served(RecordCameraTables(item.reader))}

InitRecords ==
    /\ TextIdle
    /\ rd_item \in RecordItems
    /\ rd_web \in RecordWebs(rd_item)
    /\ rd_mode = 0
    /\ rd_errors = << >>
    /\ rd_status = "trying"
    /\ rd_result = << >>
    /\ rd_uuid = 0
    /\ FetchIdle
    /\ EnumIdle
    /\ CacheIdle
    /\ PoolIdle
    /\ PurgeIdle

SpecRecords == InitRecords /\ [][NextReader]_vars

-----------------------------------------------------------------------------
(* Claims about the records accepted (checked under SpecRecords)             *)

Positive(x) == DecLess(Dec(0, 0), x)

\* C19: every lens record the reader returns has every field, its focal
\* lengths, f-values and minimum focus distance are positive, its minimum
\* focal length is at most its maximum and its minimum f-value at most its
\* maximum.
C19_AsStated ==
    (rd_status = "returned" /\ rd_item.reader = "read_lens") =>
        LET rec == rd_result.rec
        IN  /\ LensFields \subseteq DOMAIN rec
            /\ \A k \in {"min_focal_length", "max_focal_length", "min_f_value",
                         "max_f_value", "min_focus_distance"} : Positive(rec[k])
            /\ DecLeq(rec["min_focal_length"], rec["max_focal_length"])
            /\ DecLeq(rec["min_f_value"], rec["max_f_value"])

\* C20: every camera record a reader returns carries the size name the
\* size-inference rule gives for its width and height: FX (35mm for Sony)
\* only within 35.6..36.0 by 23.8..24.0, DX (APS-C) only within 20.7..23.7 by
\* 13.8..15.8.
C20_AsStated ==
    (rd_status = "returned" /\ rd_item.reader # "read_lens") =>
        LET rec == rd_result.rec
        IN  rec["size_name"] =
                infer_media_size_name(rec["media_width"], rec["media_height"],
                                      rd_item.reader # "fetch_camera")


-----------------------------------------------------------------------------
(* More claims about the records (checked under SpecRecords)                 *)

\* the pairs of _read_lens after its loop over the rows of the table
TableScan(name, uri0, params, web, n) ==
    LET uri  == IF params.subpath # None THEN urljoin(uri0, params.subpath) ELSE uri0
        selection == SelectTables(fetch(web, uri), params.table_selector)
        init == ("id" :> uuid4(n)) @@ ("name" :> name)
                   @@ ("brand" :> "Nikon") @@ ("keywords" :> "")
        pairs0 == IF InFmount(uri) THEN ("mount" :> MOUNT_F) @@ init ELSE init
    IN  ScanLensRows(selection[1].rows, pairs0,
                     params.key_cell_selector, params.value_cell_selector)

\* the first strategy of read_lens found the table of the page and went
\* through its rows
FirstScanDone ==
    /\ rd_item.reader = "read_lens"
    /\ rd_mode > 0 \/ rd_status # "trying"
    /\ rd_web[rd_item.uri].up
    /\ Len(SelectTables(rd_web[rd_item.uri], read_lens_mode_values[1].table_selector)) > 0

FirstScan == TableScan(rd_item.name, rd_item.uri, read_lens_mode_values[1], rd_web, 0)

\* the label of the row that gives an attribute
LabelOf(attr) ==
    CASE attr \in {"min_focal_length", "max_focal_length"} -> <<"shoten_kyori">>
      [] attr = "min_f_value" -> <<"saidai_shibori">>
      [] attr = "max_f_value" -> <<"saisho_shibori">>

\* the name embeds the attribute: the recognizer of its row finds it there
Embedded(attr, name) ==
    LET r == _recognize_lens_property(LabelOf(attr), name)
    IN  r.kind = "ok" /\ Has(r.pairs, attr)

\* the attributes of attrs missing after the scan are filled from the name
\* where it embeds them, and no pair of the scan is replaced
BackfillFills(attrs) ==
    LET On(scan, back) ==
            scan.kind = "ok" =>
                /\ back.kind = "ok"
                /\ \A k \in DOMAIN scan.pairs : back.pairs[k] = scan.pairs[k]
                /\ \A a \in attrs :
                       (~ Has(scan.pairs, a) /\ Embedded(a, rd_item.name)) =>
                           /\ Has(back.pairs, a)
                           /\ back.pairs[a] =
                                  _recognize_lens_property(LabelOf(a), rd_item.name).pairs[a]
        Of(scan) == On(scan, BackfillFromName(rd_item.name, scan.pairs))
    IN  FirstScanDone => Of(FirstScan)

\* C23 (as stated): the focal lengths and both f-values missing after the
\* table scan are filled from the display name when it embeds them, and the
\* backfill replaces nothing a row set.
C23_AsStated ==
    BackfillFills({"min_focal_length", "max_focal_length", "min_f_value", "max_f_value"})

\* C23 (amended): the focal lengths and the minimum f-value missing after the
\* table scan are filled from the display name when it embeds them, and the
\* backfill replaces nothing a row set; the maximum f-value is not backfilled.
C23_Backfill ==
    /\ BackfillFills({"min_focal_length", "max_focal_length", "min_f_value"})
    /\ (FirstScanDone /\ FirstScan.kind = "ok" /\ ~ Has(FirstScan.pairs, "max_f_value")) =>
           LET back == BackfillFromName(rd_item.name, FirstScan.pairs)
           IN  back.kind = "ok" /\ ~ Has(back.pairs, "max_f_value")

\* a lens whose table leaves the focal length and the largest aperture out
\* is returned with the 50mm and the f/1.8 of its name
C23_Witness ==
    /\ FirstScanDone
    /\ FirstScan.kind = "ok"
    /\ ~ Has(FirstScan.pairs, "min_focal_length")
    /\ ~ Has(FirstScan.pairs, "min_f_value")
    /\ rd_status = "returned"
    /\ rd_result.rec["min_focal_length"] = Dec(50, 0)
    /\ rd_result.rec["max_focal_length"] = Dec(50, 0)
    /\ rd_result.rec["min_f_value"] = Dec(18, 1)
    /\ rd_result.rec["max_f_value"] = Dec(16, 0)


-----------------------------------------------------------------------------
(* More claims about the spec readers (checked under SpecReader)             *)

\* the pairs of _read_camera after its loop over the rows of the table
CameraTableScan(name, uri0, params, web, n) ==
    LET uri  == IF params.subpath # None THEN urljoin(uri0, params.subpath) ELSE uri0
        selection == SelectTables(fetch(web, uri), params.table_selector)
        pairs0 == ("id" :> uuid4(n)) @@ ("name" :> name)
                     @@ ("brand" :> "Nikon") @@ ("keywords" :> "")
    IN  ScanCameraRows(selection[1].rows, pairs0, params.key_cell_selector,
                       params.value_cell_selector, "cldb.nikon")

\* the pairs the strategy that returned had parsed, from the rows and from
\* the name, before the forced spec data were applied
Parsed ==
    IF rd_item.reader = "read_lens"
    THEN BackfillFromName(rd_item.name,
             TableScan(rd_item.name, rd_item.uri, read_lens_mode_values[rd_mode + 1],
                       rd_web, rd_uuid - 1).pairs).pairs
    ELSE CameraTableScan(rd_item.name, rd_item.uri, read_camera_mode_values[rd_mode + 1],
                         rd_web, rd_uuid - 1).pairs

\* the entry of the item in the table of forced spec data of its reader
Known ==
    IF rd_item.reader = "read_lens" THEN nikon_known_lens_specs(rd_item.name)
    ELSE nikon_known_camera_specs(rd_item.name)

\* C24: the record returned for an item named in the table of forced spec
\* data has the forced value for every key of its entry (250 for the focus
\* distance of the AI Micro-Nikkor 55mm f/2.8S, Nikon F for the mount of the
\* D1), whatever the rows and the name gave; every other key parsed is left
\* as parsed.
C24_Forced ==
    (rd_status = "returned" /\ rd_item.reader \in {"read_lens", "read_camera"}) =>
        LET rec == rd_result.rec
        IN  /\ \A k \in DOMAIN Known : rec[k] = Known[k]
            /\ rd_item.name = Chars("AI Micro-Nikkor 55mm f/2.8S") =>
                   rec["min_focus_distance"] = Dec(250, 0)
            /\ rd_item.name = Chars("D1") => rec["mount"] = MOUNT_F
            /\ \A k \in DOMAIN Parsed \ DOMAIN Known : rec[k] = Parsed[k]

\* the 55mm lens is returned with the forced 250 where its rows said 0.45m,
\* and with the 50mm of its rows
C24_Witness ==
    /\ rd_status = "returned"
    /\ rd_item.name = Chars("AI Micro-Nikkor 55mm f/2.8S")
    /\ Has(Parsed, "min_focus_distance")
    /\ Parsed["min_focus_distance"] = Dec(450, 0)
    /\ rd_result.rec["min_focus_distance"] = Dec(250, 0)
    /\ rd_result.rec["min_focal_length"] = Dec(50, 0)

\* the record construction of strategy j rejects the pairs it is given
ValidationFails(j) ==
    LET r == StrategyOutcome(j, 0)
    IN  r.kind = "CameraLensDatabaseException" /\ r.err.msg = "unexpected spec"

-----------------------------------------------------------------------------
(* parallel_apply in the fetch command (SpecParallel): the items are handed  *)
(* to the processes of a pool, which finish them in any order.               *)

\* multiprocessing.cpu_count()
CpuCount == 2

\* the most items listed
MaxJobs == 3

\* the processes that apply f: the pool of max_workers processes, or the
\* command itself when num_workers is 1
Processes(num_workers) ==
    IF num_workers <= 0 THEN 1..CpuCount
    ELSE IF num_workers = 1 THEN {1}
    ELSE 1..num_workers

\* f(args) for the item listed i-th: what the reader gives for its page,
\* with the uuids drawn for that item
Applied(i) == detail_fetcher(f_pkg, f_ppargs[i], f_web, 3 * (i - 1))

\* from "specs = [...]" to the data frame written: identifiers reused, the
\* records sorted (the key function folds no column, see WriteDataset)
Assemble(specs, prior) ==
    LET rows == sort_values(reuse_ids(specs, orig_id_map(prior.rows)),
                            <<"brand", "mount", "name">>, {})
    IN  Dataset(DOMAIN rows[1], rows)

InitParallel ==
    /\ TextIdle
    /\ ReaderIdle
    /\ EnumIdle
    /\ CacheIdle
    /\ PurgeIdle
    /\ f_pkg = "camera_lens_database"
    /\ f_prior \in {ds \in PriorDatasets : Len(ds.rows) # 1}
    /\ f_csv = f_prior
    /\ \E n \in 1..MaxJobs :
          /\ \E names \in [1..n -> {Chars("D3s"), Chars("D3S")}] :
                f_ppargs = [i \in 1..n |-> [name |-> names[i], uri |-> ItemUri(i)]]
          /\ \E pages \in [1..n -> {pg \in CameraPages : pg.tables # << >> /\
                     pg.tables[1].rows[1][2].text # Chars(" nikon Z mount ")}] :
                f_web = [u \in {urljoin(ItemUri(i), "spec.html") : i \in 1..n} |->
                            pages[CHOOSE i \in 1..n : urljoin(ItemUri(i), "spec.html") = u]]
    /\ f_specs = << >>
    /\ f_status = "reading"
    /\ f_exc = ""
    /\ f_uuid = 0
    /\ f_sort = "none"
    /\ f_sorted = Dataset({}, << >>)
    /\ pl_workers \in 0..2
    /\ pl_task = [w \in Processes(pl_workers) |-> 0]
    /\ pl_done = << >>
    /\ pl_order = << >>

\* the items no process has taken
Waiting ==
    {i \in 1..Len(f_ppargs) :
        i \notin DOMAIN pl_done /\ \A w \in DOMAIN pl_task : pl_task[w] # i}

\* a process without an item takes the first of the items waiting
TakeItem(w) ==
    /\ f_status = "reading"
    /\ pl_task[w] = 0
    /\ Waiting # {}
    /\ pl_task' = [pl_task EXCEPT ![w] = CHOOSE i \in Waiting : \A j \in Waiting : i <= j]
    /\ UNCHANGED <<pl_workers, pl_done, pl_order, fetchVars, textVars, readerVars,
                   enumVars, cacheVars, purgeVars>>

\* a process is through with f(args) for its item, a record or an exception
FinishItem(w) ==
    /\ f_status = "reading"
    /\ pl_task[w] # 0
    /\ pl_done' = (pl_task[w] :> Applied(pl_task[w])) @@ pl_done
    /\ pl_order' = Append(pl_order, pl_task[w])
    /\ pl_task' = [pl_task EXCEPT ![w] = 0]
    /\ UNCHANGED <<pl_workers, fetchVars, textVars, readerVars, enumVars, cacheVars,
                   purgeVars>>

\* mutant: the results are taken in the order the processes finished
GatherResults_as_completed ==
    LET results == [k \in 1..Len(pl_order) |-> pl_done[pl_order[k]].rec]
    IN  /\ f_status = "reading"
        /\ DOMAIN pl_done = 1..Len(f_ppargs)
        /\ \A i \in DOMAIN pl_done : pl_done[i].kind = "ok"
        /\ f_specs' = results
        /\ f_csv' = Assemble(results, f_prior)
        /\ f_status' = "written"
        /\ UNCHANGED <<f_pkg, f_prior, f_ppargs, f_web, f_exc, f_uuid, f_sort, f_sorted,
                       poolVars, textVars, readerVars, enumVars, cacheVars, purgeVars>>

\* "results = [spec for spec in pbar]": the results in the order of the
\* items; then the identifiers, the sort and the file
GatherResults ==
    LET results == [i \in 1..Len(f_ppargs) |-> pl_done[i].rec]
    IN  /\ f_status = "reading"
        /\ DOMAIN pl_done = 1..Len(f_ppargs)
        /\ \A i \in DOMAIN pl_done : pl_done[i].kind = "ok"
        /\ f_specs' = results
        /\ f_csv' = Assemble(results, f_prior)
        /\ f_status' = "written"
        /\ UNCHANGED <<f_pkg, f_prior, f_ppargs, f_web, f_exc, f_uuid, f_sort, f_sorted,
                       poolVars, textVars, readerVars, enumVars, cacheVars, purgeVars>>

\* the result of an item is an exception: it is raised when the results
\* before it have been taken, and reaches "except Exception"
GatherRaises ==
    /\ f_status = "reading"
    /\ \E i \in DOMAIN pl_done :
          /\ 1..i \subseteq DOMAIN pl_done
          /\ pl_done[i].kind # "ok"
          /\ \A j \in 1..(i - 1) : pl_done[j].kind = "ok"
          /\ f_exc' = pl_done[i].kind
    /\ f_status' = "exit 1"
    /\ UNCHANGED <<f_pkg, f_prior, f_csv, f_ppargs, f_web, f_specs, f_uuid, f_sort,
                   f_sorted, poolVars, textVars, readerVars, enumVars, cacheVars,
                   purgeVars>>

NextParallel ==
    \/ \E w \in DOMAIN pl_task : TakeItem(w)
    \/ \E w \in DOMAIN pl_task : FinishItem(w)
    \/ GatherResults
    \/ GatherRaises

SpecParallel == InitParallel /\ [][NextParallel]_vars

-----------------------------------------------------------------------------
(* Claims about parallel_apply (checked under SpecParallel)                  *)

\* the rows of a run that applies f to the items one after the other
RowsInOrder == Assemble([i \in 1..Len(f_ppargs) |-> Applied(i).rec], f_prior)

\* C26: the dataset written is the one of a run that reads the items one
\* after the other, whatever the number of processes (0, 1 or 2) and the
\* order in which they finished their items.
C26_OrderFree ==
    /\ f_status = "written" => f_csv = RowsInOrder
    /\ f_status # "written" => f_csv = f_prior

\* two processes finished the second item before the first; the two have
\* the same name and mount, and their rows are written first item first
C26_Witness ==
    /\ f_status = "written"
    /\ pl_workers = 0
    /\ pl_order = <<2, 1>>
    /\ f_ppargs[1].name = f_ppargs[2].name
    /\ f_csv.rows[1]["mount"] = f_csv.rows[2]["mount"]
    /\ f_csv.rows[1]["id"] = uuid4(0)
    /\ f_csv.rows[2]["id"] = uuid4(3)

-----------------------------------------------------------------------------
(* The purge command and fetch (SpecPurge): one process calls fetch, the     *)
(* retrieval may fail, and "cache purge" is run once between two calls.      *)

\* what a fetch that raised leaves to its caller
RaisedIn(uri, exc) == [uri |-> uri, text |-> << >>, live |-> TRUE, raised |-> exc]

\* the paths of cache_root.glob("**/*"), in the orders a directory may list
\* them
Globs ==
    LET there == {u \in URIs : disk[u].exists}
    IN  {g \in UNION {[1..n -> there] : n \in 0..Cardinality(URIs)} :
            /\ Len(g) = Cardinality(there)
            /\ \A i, j \in 1..Len(g) : i # j => g[i] # g[j]}

\* the paths the purge warned about
Warned == {pg_log[k][1] : k \in {k \in 1..Len(pg_log) : pg_log[k][2] = "warned"}}

InitPurge ==
    /\ TextIdle
    /\ ReaderIdle
    /\ FetchIdle
    /\ EnumIdle
    /\ PoolIdle
    /\ now = 0
    /\ disk = [u \in URIs |-> NoFile]
    /\ site = 1
    /\ pc = [w \in {"w1"} |-> "idle"]
    /\ req = [w \in {"w1"} |-> ""]
    /\ resp = [w \in {"w1"} |-> << >>]
    /\ ret = [w \in {"w1"} |-> NoReturn]
    /\ pg_status = "none"
    /\ pg_left = << >>
    /\ pg_log = << >>
    /\ pg_snap = [u \in URIs |-> NoFile]
    /\ pg_called = {}
    /\ pg_first = FALSE

\* fetch(uri) begins, no purge running; it is noted whether the call is the
\* first with its URI since the purge ended
CallFetch(w, uri) ==
    /\ pg_status # "purging"
    /\ pc[w] = "idle"
    /\ pc' = [pc EXCEPT ![w] = "check"]
    /\ req' = [req EXCEPT ![w] = uri]
    /\ pg_first' = (pg_status = "done" /\ uri \notin pg_called)
    /\ pg_called' = IF pg_status = "done" THEN pg_called \cup {uri} ELSE pg_called
    /\ UNCHANGED <<now, disk, site, resp, ret, pg_status, pg_left, pg_log, pg_snap,
                   textVars, readerVars, fetchVars, enumVars, poolVars>>

\* mutant: the cache file is opened for writing before the retrieval
GetRaises_after_open(w) ==
    /\ pc[w] = "get"
    /\ pc' = [pc EXCEPT ![w] = "idle"]
    /\ disk' = [disk EXCEPT ![req[w]] = File(now, << >>)]
    /\ ret' = [ret EXCEPT ![w] = RaisedIn(req[w], "ConnectionError")]
    /\ req' = [req EXCEPT ![w] = ""]
    /\ UNCHANGED <<now, site, resp, purgeVars,
                   textVars, readerVars, fetchVars, enumVars, poolVars>>

\* "resp = requests.get(uri)" raises a transport exception, which leaves
\* fetch
GetRaises(w) ==
    /\ pc[w] = "get"
    /\ pc' = [pc EXCEPT ![w] = "idle"]
    /\ ret' = [ret EXCEPT ![w] = RaisedIn(req[w], "ConnectionError")]
    /\ req' = [req EXCEPT ![w] = ""]
    /\ UNCHANGED <<now, disk, site, resp, purgeVars,
                   textVars, readerVars, fetchVars, enumVars, poolVars>>

\* "if cache_root.exists(): for path in cache_root.glob("**/*")"
PurgeStart ==
    /\ pg_status = "none"
    /\ \A w \in DOMAIN pc : pc[w] = "idle"
    /\ pg_status' = "purging"
    /\ pg_left' \in Globs
    /\ pg_snap' = disk
    /\ UNCHANGED <<pg_log, pg_called, pg_first, cacheVars,
                   textVars, readerVars, fetchVars, enumVars, poolVars>>

\* path.unlink()
Unlink ==
    /\ pg_status = "purging"
    /\ pg_left # << >>
    /\ disk' = [disk EXCEPT ![Head(pg_left)] = NoFile]
    /\ pg_log' = Append(pg_log, <<Head(pg_left), "removed">>)
    /\ pg_left' = Tail(pg_left)
    /\ UNCHANGED <<now, site, pc, req, resp, ret, pg_status, pg_snap, pg_called, pg_first,
                   textVars, readerVars, fetchVars, enumVars, poolVars>>

\* mutant: the loop ends at the first path it cannot remove
UnlinkFails_stops ==
    /\ pg_status = "purging"
    /\ pg_left # << >>
    /\ pg_log' = Append(pg_log, <<Head(pg_left), "warned">>)
    /\ pg_left' = << >>
    /\ UNCHANGED <<pg_status, pg_snap, pg_called, pg_first, cacheVars,
                   textVars, readerVars, fetchVars, enumVars, poolVars>>

\* path.unlink() raises OSError: "cannot remove ..." is printed in yellow
\* and the loop goes on
UnlinkFails ==
    /\ pg_status = "purging"
    /\ pg_left # << >>
    /\ pg_log' = Append(pg_log, <<Head(pg_left), "warned">>)
    /\ pg_left' = Tail(pg_left)
    /\ UNCHANGED <<pg_status, pg_snap, pg_called, pg_first, cacheVars,
                   textVars, readerVars, fetchVars, enumVars, poolVars>>

\* the loop over the paths is through: the command ends
PurgeEnd ==
    /\ pg_status = "purging"
    /\ pg_left = << >>
    /\ pg_status' = "done"
    /\ UNCHANGED <<pg_left, pg_log, pg_snap, pg_called, pg_first, cacheVars,
                   textVars, readerVars, fetchVars, enumVars, poolVars>>

NextPurge ==
    \/ \E w \in DOMAIN pc : \E uri \in URIs : CallFetch(w, uri)
    \/ \E w \in DOMAIN pc : CheckFresh(w)
    \/ \E w \in DOMAIN pc : CheckStale(w)
    \/ \E w \in DOMAIN pc : ReadCache(w)
    \/ \E w \in DOMAIN pc : Get(w)
    \/ \E w \in DOMAIN pc : GetRaises(w)
    \/ \E w \in DOMAIN pc : OpenForWrite(w)
    \/ \E w \in DOMAIN pc : Write(w)
    \/ \E w \in DOMAIN pc : WriteRest(w)
    \/ \E w \in DOMAIN pc : Return(w)
    \/ Tick
    \/ SiteChanges
    \/ PurgeStart
    \/ Unlink
    \/ UnlinkFails
    \/ PurgeEnd

SpecPurge == InitPurge /\ [][NextPurge]_vars

-----------------------------------------------------------------------------
(* Claims about fetch and the purge (checked under SpecPurge)                *)

\* C27: a step of fetch(uri) changes no cache entry but the one of uri; the
\* steps of a fetch up to a retrieval that raises change none, the stale
\* entry of uri included, and the exception reaches the caller.
C27_Frame ==
    [][\A w \in DOMAIN pc :
          /\ pg_log' = pg_log =>
                \A u \in URIs : disk'[u] # disk[u] => u = req[w]
          /\ pc'[w] \in {"check", "get"} => disk' = disk
          /\ (pc[w] = "get" /\ pc'[w] = "idle") =>
                /\ disk' = disk
                /\ ret'[w] = RaisedIn(req[w], "ConnectionError")]_vars

\* the retrieval failed for a URI whose entry is there and old: the entry is
\* as it was written
C27_Witness ==
    /\ "raised" \in DOMAIN ret["w1"]
    /\ disk[ret["w1"].uri].exists
    /\ now >= disk[ret["w1"].uri].mtime + CACHE_TIMEOUT
    /\ Len(disk[ret["w1"].uri].data) > 0

\* the fetch the process is in, or has just left, is the first of its URI
\* since the purge ended
FirstSincePurge(w) == pg_status = "done" /\ pg_first

\* the first fetch of a URI since the purge makes a retrieval, and when the
\* retrieval gives a page the entry of the URI holds it
FirstIsLive(w) ==
    /\ pc[w] # "read"
    /\ (pc[w] = "idle" /\ "raised" \notin DOMAIN ret[w]) =>
          /\ ret[w].live
          /\ disk[ret[w].uri].exists
          /\ disk[ret[w].uri].data = write_text(ret[w].text)

\* every path of the glob is gone through, a warning for each that is not
\* removed
AllGoneThrough ==
    /\ Len(pg_log) = Cardinality({u \in URIs : pg_snap[u].exists})
    /\ \A u \in URIs : pg_snap[u].exists =>
          \E k \in 1..Len(pg_log) : pg_log[k][1] = u
    /\ \A u \in URIs \ (Warned \cup pg_called) : ~ disk[u].exists

\* C28 (as stated): once the purge has ended, the first fetch of any URI
\* makes a retrieval and re-creates the entry; during the purge a path that
\* cannot be removed is warned about and the other paths are gone through.
C28_AsStated ==
    /\ \A w \in DOMAIN pc : FirstSincePurge(w) => FirstIsLive(w)
    /\ pg_status = "done" => AllGoneThrough

\* C28 (amended): once the purge has ended, the first fetch of a URI whose
\* entry the purge did not warn about makes a retrieval and re-creates the
\* entry; during the purge a path that cannot be removed is warned about,
\* stays, and the other paths are gone through.
C28_Purged ==
    /\ \A w \in DOMAIN pc :
          (FirstSincePurge(w) /\ (IF pc[w] = "idle" THEN ret[w].uri ELSE req[w]) \notin Warned)
              => FirstIsLive(w)
    /\ pg_status = "done" => AllGoneThrough
    /\ pg_status = "purging" => \A u \in Warned : disk[u] = pg_snap[u]

\* the purge could not remove the first of two entries and removed the
\* second; the first fetch of the second after it retrieved the page and
\* wrote the entry again
C28_Witness ==
    /\ pg_status = "done"
    /\ pg_log = <<<<"u1", "warned">>, <<"u2", "removed">>>>
    /\ pg_first
    /\ pc["w1"] = "idle"
    /\ ret["w1"].uri = "u2"
    /\ ret["w1"].live
    /\ "raised" \notin DOMAIN ret["w1"]
    /\ disk["u2"].exists

-----------------------------------------------------------------------------
(* The names of the tables under _normalize_name (SpecNames)                 *)

\* the keys of _known_lens_specs and of _known_camera_specs
KnownNames ==
    {Chars("AI AF Zoom-Nikkor 18-35mm f/3.5-4.5D IF-ED"),
     Chars("AI AF Zoom Nikkor 24~50mm F3.3~4.5D"),
     Chars("AI Micro-Nikkor 55mm f/2.8S"),
     Chars("AI Micro-Nikkor 105mm f/2.8S"),
     Chars("D1")}

\* the names of the two tables
TableNames == _models_to_ignore \cup KnownNames

\* a title of a listing page: a name of the tables, as it is or followed by
\* the mark of a discontinued or of a new product
InitNames ==
    /\ tokens = << >>
    /\ \E nm \in TableNames :
          text \in {nm, nm \o <<" ", "old">>, nm \o <<"<NEW>">>}
    /\ op = "none"
    /\ out = NoResult
    /\ ReaderIdle
    /\ FetchIdle
    /\ EnumIdle
    /\ CacheIdle
    /\ PoolIdle
    /\ PurgeIdle

\* "name = _normalize_name(name)"
Call_normalize_name ==
    /\ op = "none"
    /\ op' = "_normalize_name"
    /\ out' = [name |-> _normalize_name(text),
               ignored |-> _normalize_name(text) \in _models_to_ignore,
               known |-> nikon_known_lens_specs(_normalize_name(text))
                            @@ nikon_known_camera_specs(_normalize_name(text))]
    /\ UNCHANGED <<tokens, text, readerVars, fetchVars, enumVars, cacheVars,
                   poolVars, purgeVars>>

NextNames == Call_normalize_name

SpecNames == InitNames /\ [][NextNames]_vars

-----------------------------------------------------------------------------
(* Claims about the names of the tables (checked under SpecNames)            *)

\* C29: every name of the denylist and every key of the tables of forced
\* spec data is left as it is by _normalize_name, so that the normalized
\* name of a listed item can be equal to it.
C29_AsStated ==
    (op = "_normalize_name" /\ text \in TableNames) => out.name = text


-----------------------------------------------------------------------------
(* More claims about the fetch commands (checked under Spec)                 *)

\* C21: when an exception reaches the top level of a fetch command, the
\* command ends with a non-zero exit status: it never ends with status 0
\* (nor with its dataset written) after such a failure.
C21_AsStated ==
    f_exc # "" => f_status \notin {"exit 0", "written"}

\* C30: the identifiers of the rows written are pairwise distinct, whatever
\* the items listed and the prior dataset.
C30_AsStated ==
    f_status = "written" =>
        \A i, j \in 1..Len(f_csv.rows) :
            i # j => f_csv.rows[i]["id"] # f_csv.rows[j]["id"]


-----------------------------------------------------------------------------
(* The property recognizers on a label and a value text (SpecRecognize)      *)

\* the labels of the rows of a lens table, and one no lens row carries
LensLabels ==
    {<<"keishiki">>, <<"shoten_kyori">>, <<"saitan_satsuei_kyori">>,
     <<"saisho_shibori">>, <<"saidai_shibori">>, <<"other">>}

\* the labels of the rows of a camera table, and one no camera row carries
CameraLabels ==
    {<<"lens_mount">>, <<"satsuzo_soshi">>, <<"satsuzo_soshi_hoshiki">>,
     <<"hoshiki">>, <<"other">>}

\* value texts that describe a mount, or fail to
MountTexts == {Chars(" nikon Z mount "), Chars("nikonFmount"), Chars("nikon1mount")}

InitRecognize ==
    /\ \/ /\ tokens \in UNION {[1..n -> QuantityTokens] : n \in 0..MaxWords}
                           \cup {<<t>> : t \in AreaTokens}
          /\ text = Render(tokens)
       \/ /\ tokens = << >>
          /\ text \in MountTexts
    /\ op = "none"
    /\ out = NoResult
    /\ ReaderIdle
    /\ FetchIdle
    /\ EnumIdle
    /\ CacheIdle
    /\ PoolIdle
    /\ PurgeIdle

Call_recognize_lens_property(key) ==
    /\ op = "none"
    /\ op' = "_recognize_lens_property"
    /\ out' = [key |-> key, res |-> _recognize_lens_property(key, text)]
    /\ UNCHANGED <<tokens, text, readerVars, fetchVars, enumVars, cacheVars,
               poolVars, purgeVars>>

Call_recognize_camera_property(key) ==
    /\ op = "none"
    /\ op' = "_recognize_camera_property"
    /\ out' = [key |-> key, res |-> nikon_recognize_camera_property(key, text)]
    /\ UNCHANGED <<tokens, text, readerVars, fetchVars, enumVars, cacheVars,
               poolVars, purgeVars>>

NextRecognize ==
    \/ \E key \in LensLabels : Call_recognize_lens_property(key)
    \/ \E key \in CameraLabels : Call_recognize_camera_property(key)

SpecRecognize == InitRecognize /\ [][NextRecognize]_vars

-----------------------------------------------------------------------------
(* Claims about the recognizers (checked under SpecRecognize)                *)

\* C22: for every label and value text a recognizer returns a mapping or
\* raises ParseError; it raises no exception of another kind.
C22_AsStated ==
    op # "none" => out.res.kind \in {"ok", "ParseError"}

====
